---------------------------- MODULE Spec2Model ----------------------------
(* A model of the Studio iterative kickoff loop (studio/iteration.py), the   *)
(* model manager and rate-limit monitor (studio/telemetry.py) and the LLM    *)
(* selection of StudioCrew (studio/crew.py).                                 *)
(*                                                                           *)
(* Conventions: Python's None is the empty tuple <<>> and a present value v  *)
(* is the one-element tuple <<v>>; a text is a sequence of tokens (words,    *)
(* whitespace); time is in whole seconds.                                    *)
EXTENDS Integers, Sequences, FiniteSets, TLC

(***************************************************************************)
(* Bounds of the model                                                     *)
(***************************************************************************)
\* the clock stops advancing at MaxTime
MaxTime == 5
\* disturbances in one behaviour: operations on the singletons before the run
\* starts, plus agent turns that raise
MaxOps == 2

(***************************************************************************)
(* Program constants                                                       *)
(***************************************************************************)
COOLDOWN_MIN_SECONDS == 5
COOLDOWN_DEFAULT_SECONDS == 30
OVERHEAT_COOLDOWN_SECONDS == 45
\* mark_cooldown(retry_after=600) for a missing API key
MISSING_KEY_COOLDOWN == 600
\* mark_overheated(cooldown_seconds=60) for a failed Ollama health check
OLLAMA_FAIL_COOLDOWN == 60
\* _safe_max_iterations' fallback
DEFAULT_MAX_ITERATIONS == 3
\* RATE_LIMIT_WARN_RATIO = 0.2, as the ratio 1 / WARN_RATIO_DEN
WARN_RATIO_DEN == 5

None == <<>>
Some(v) == <<v>>
IsNone(x) == x = <<>>
Val(x) == x[1]

Max(a, b) == IF a >= b THEN a ELSE b

(***************************************************************************)
(* Texts and extract_verdict                                               *)
(***************************************************************************)
\* upper-casing of the tokens the verdict pattern can see; other tokens are
\* words that hold neither "VERDICT:" nor a verdict
Upper(tok) ==
    CASE tok \in {"VERDICT:", "verdict:", "Verdict:"} -> "VERDICT:"
      [] tok \in {"APPROVED", "approved", "Approved"} -> "APPROVED"
      [] tok \in {"REJECTED", "rejected", "Rejected"} -> "REJECTED"
      [] OTHER -> tok

IsSpace(tok) == tok \in {" ", "\n", "\t"}

\* the index of the first token at or after i that is not whitespace (\s*)
RECURSIVE SkipSpaces(_, _)
SkipSpaces(text, i) ==
    IF i <= Len(text) /\ IsSpace(text[i]) THEN SkipSpaces(text, i + 1) ELSE i

\* re.search matches at token i: VERDICT: \s* (APPROVED|REJECTED), any case
MatchesAt(text, i) ==
    /\ Upper(text[i]) = "VERDICT:"
    /\ LET j == SkipSpaces(text, i + 1)
       IN  j <= Len(text) /\ Upper(text[j]) \in {"APPROVED", "REJECTED"}

\* a variant that reads the last verdict of the text instead of the first
extract_verdict_last(text) ==
    LET hits == {i \in 1..Len(text) : MatchesAt(text, i)}
    IN  IF hits = {} THEN "UNKNOWN"
        ELSE LET i == CHOOSE k \in hits : \A h \in hits : k >= h
             IN  Upper(text[SkipSpaces(text, i + 1)])

extract_verdict(text) ==
    LET hits == {i \in 1..Len(text) : MatchesAt(text, i)}
    IN  IF hits = {} THEN "UNKNOWN"
        ELSE LET i == CHOOSE k \in hits : \A h \in hits : k <= h
             IN  Upper(text[SkipSpaces(text, i + 1)])

TApproved == <<"Improved plan!", "\n", "Verdict:", "approved">>
TRejected == <<"Still bad.", "\n", "VERDICT:", " ", "REJECTED">>
TBoth == <<"VERDICT:", " ", "REJECTED", "\n", "Verdict:", "\t", "Approved">>
TBroken == <<"VERDICT:", " ", "maybe", " ", "APPROVED">>
\* the result texts an agent turn may return
Texts == {TApproved, TRejected, TBoth, TBroken}

TImpl == <<"## Market Implementation">>
\* what the implementation crew's kickoff may return, as str(result)
ImplTexts == {TImpl, <<>>}

(***************************************************************************)
(* int() and _safe_max_iterations                                          *)
(***************************************************************************)
Digits == {"0", "1", "2", "3", "4", "5", "6", "7", "8", "9"}
DigitVal(c) ==
    CASE c = "0" -> 0 [] c = "1" -> 1 [] c = "2" -> 2 [] c = "3" -> 3
      [] c = "4" -> 4 [] c = "5" -> 5 [] c = "6" -> 6 [] c = "7" -> 7
      [] c = "8" -> 8 [] c = "9" -> 9

RECURSIVE StripLeft(_)
StripLeft(s) == IF s # <<>> /\ s[1] = " " THEN StripLeft(Tail(s)) ELSE s
RECURSIVE StripRight(_)
StripRight(s) ==
    IF s # <<>> /\ s[Len(s)] = " " THEN StripRight(SubSeq(s, 1, Len(s) - 1)) ELSE s

RECURSIVE DigitsValue(_, _)
DigitsValue(s, acc) ==
    IF s = <<>> THEN acc ELSE DigitsValue(Tail(s), 10 * acc + DigitVal(s[1]))

\* int(s) of a string s (a sequence of characters): None when it raises
ParseIntStr(s) ==
    LET t == StripRight(StripLeft(s))
        signed == t # <<>> /\ t[1] \in {"-", "+"}
        body == IF signed THEN Tail(t) ELSE t
    IN  IF body = <<>> \/ \E i \in 1..Len(body) : body[i] \notin Digits
        THEN None
        ELSE Some(IF signed /\ t[1] = "-" THEN 0 - DigitsValue(body, 0)
                  ELSE DigitsValue(body, 0))

\* a Python value that is None, an int or a str:
\*   <<>>, <<"int", n>>, <<"str", chars>>
PyInt(n) == <<"int", n>>
PyStr(s) == <<"str", s>>
\* int(v) for v not None: None when it raises TypeError/ValueError
ToInt(v) == IF v[1] = "int" THEN Some(v[2]) ELSE ParseIntStr(v[2])
\* truthiness of a Python value
Truthy(v) ==
    /\ v # None
    /\ IF v[1] = "int" THEN v[2] # 0 ELSE v[2] # <<>>

\* a variant that lets a non-positive value through
_safe_max_iterations_nonpos(raw_value) ==
    LET parsed == IF raw_value = None THEN 0
                  ELSE IF ToInt(raw_value) = None THEN 0 ELSE Val(ToInt(raw_value))
    IN  IF parsed >= 0 THEN parsed ELSE DEFAULT_MAX_ITERATIONS

_safe_max_iterations(raw_value) ==
    LET parsed == IF raw_value = None THEN 0
                  ELSE IF ToInt(raw_value) = None THEN 0 ELSE Val(ToInt(raw_value))
    IN  IF parsed > 0 THEN parsed ELSE DEFAULT_MAX_ITERATIONS

\* the max_iterations arguments tried
RawValues ==
    { None, PyStr(<<"-", "1">>), PyStr(<<"a">>), PyStr(<<" ", "2">>), PyInt(1), PyInt(0) }

(***************************************************************************)
(* Candidates, the environment, the rate-limit monitor                     *)
(***************************************************************************)
Gemini == "gemini-2.5-flash"
Ollama == "ollama/llama3.1:8b"
AllModels == {Gemini, Ollama}

\* candidate.split("/", 1)[0].lower() if "/" in candidate else "gemini"
Provider(candidate) ==
    CASE candidate = Ollama -> "ollama"
      [] OTHER -> "gemini"

\* provider_env_map: the providers that need an API key
KeyedProviders == {"gemini", "google", "groq", "openai", "anthropic", "azure"}

\* the process environment: what configured_model_candidates() returns, the
\* providers whose API key is set, and whether the Ollama health check passes
Envs ==
    { [candidates |-> <<Gemini, Ollama>>, keys |-> {"gemini"}, healthy |-> TRUE],
      [candidates |-> <<Gemini, Ollama>>, keys |-> {"gemini"}, healthy |-> FALSE],
      [candidates |-> <<Gemini, Ollama>>, keys |-> {}, healthy |-> FALSE] }

\* RateLimitMonitor._should_warn
_should_warn(remaining, limit) ==
    IF remaining = None \/ limit = None THEN FALSE
    ELSE IF Val(remaining) = 0 \/ Val(limit) = 0 THEN FALSE
    ELSE IF Val(limit) <= 0 THEN FALSE
    ELSE Val(remaining) * WARN_RATIO_DEN <= Val(limit)

\* RateLimitMonitor.update: the snapshot stored for the model, from the parsed
\* headers (h.rr/h.lr requests remaining/limit, h.rt/h.lt tokens, h.ra retry-after)
MonitorSnapshot(h) ==
    [ low_headroom |-> _should_warn(h.rr, h.lr) \/ _should_warn(h.rt, h.lt),
      retry_after |-> h.ra ]

is_low_headroom(snaps, model) ==
    snaps[model] # None /\ Val(snaps[model]).low_headroom

last_retry_after(snaps, model) ==
    IF snaps[model] = None THEN None ELSE Val(snaps[model]).retry_after

\* the parsed rate-limit headers tried
HeaderSets ==
    { [rr |-> Some(9), lr |-> Some(10), rt |-> Some(2), lt |-> Some(10), ra |-> Some(7)] }

(***************************************************************************)
(* ModelManager: a record [candidates, cooldowns, overheated,               *)
(* last_selected]; a timestamp of 0 stands for an absent dict entry         *)
(***************************************************************************)
NewManager ==
    [ candidates |-> <<>>,
      cooldowns |-> [m \in AllModels |-> 0],
      overheated |-> [m \in AllModels |-> 0],
      last_selected |-> None ]

configure_candidates(mm, ordered_models) ==
    [mm EXCEPT !.candidates =
        IF ordered_models = <<>> THEN <<Gemini>> ELSE ordered_models]

\* a or b or c over Optional[int]: the first that is neither None nor 0
FirstTruthy(a, b, c) ==
    IF a # None /\ Val(a) # 0 THEN Val(a)
    ELSE IF b # None /\ Val(b) # 0 THEN Val(b)
    ELSE c

\* a variant without the COOLDOWN_MIN_SECONDS floor
mark_cooldown_nofloor(mm, snaps, t, model, retry_after) ==
    IF model = None THEN mm
    ELSE [mm EXCEPT !.cooldowns[Val(model)] =
            t + FirstTruthy(retry_after, last_retry_after(snaps, Val(model)),
                            COOLDOWN_DEFAULT_SECONDS)]

mark_cooldown(mm, snaps, t, model, retry_after) ==
    IF model = None THEN mm
    ELSE LET duration == FirstTruthy(retry_after, last_retry_after(snaps, Val(model)),
                                     COOLDOWN_DEFAULT_SECONDS)
         IN  [mm EXCEPT !.cooldowns[Val(model)] =
                            t + Max(duration, COOLDOWN_MIN_SECONDS)]

mark_overheated(mm, t, model, cooldown_seconds) ==
    IF model = None THEN mm
    ELSE LET duration == FirstTruthy(cooldown_seconds, None, OVERHEAT_COOLDOWN_SECONDS)
         IN  [mm EXCEPT !.overheated[Val(model)] =
                            t + Max(duration, COOLDOWN_MIN_SECONDS)]

_available_candidates(mm, t) ==
    SelectSeq(mm.candidates,
              LAMBDA m : mm.cooldowns[m] <= t /\ mm.overheated[m] <= t)

\* a variant that never falls back to the full list: it waits on the first
\* candidate whatever its state
select_choice_first(mm, snaps, t) ==
    IF mm.candidates = <<>> THEN None ELSE Some(mm.candidates[1])

\* a variant that takes the first available candidate whatever its headroom
select_choice_noheadroom(mm, snaps, t) ==
    LET avail == _available_candidates(mm, t)
        available == IF avail # <<>> THEN avail ELSE mm.candidates
    IN  IF available # <<>> THEN Some(available[1]) ELSE None

\* select_model's choice; None when available[0] raises IndexError (no candidate)
select_choice(mm, snaps, t) ==
    LET avail == _available_candidates(mm, t)
        available == IF avail # <<>> THEN avail ELSE mm.candidates
        preferred == SelectSeq(available, LAMBDA m : ~is_low_headroom(snaps, m))
    IN  IF preferred # <<>> THEN Some(preferred[1])
        ELSE IF available # <<>> THEN Some(available[1])
        ELSE None

\* select_model: the manager after the call (the choice is its last_selected)
select_model(mm, snaps, t) ==
    IF select_choice(mm, snaps, t) = None THEN mm
    ELSE [mm EXCEPT !.last_selected = select_choice(mm, snaps, t)]

current_model(mm) == mm.last_selected

reset(mm) == NewManager

(***************************************************************************)
(* StudioCrew._select_llm_configuration                                    *)
(***************************************************************************)
\* the loop body, k iterations left; the result is [mm, model, tested]: model
\* is None when the loop ends in EnvironmentError, tested is the set the loop
\* has built
RECURSIVE SelectLoop(_, _, _, _, _, _)
SelectLoop(mm, snaps, t, env, tested, k) ==
    IF k = 0 THEN [mm |-> mm, model |-> None, tested |-> tested]
    ELSE
      LET sel == select_model(mm, snaps, t)
          candidate == Val(sel.last_selected)
          provider == Provider(candidate)
      IN  IF candidate \in tested THEN [mm |-> sel, model |-> None, tested |-> tested]
          ELSE IF provider = "ollama"
          THEN IF ~env.healthy
               THEN SelectLoop(mark_overheated(sel, t, Some(candidate),
                                               Some(OLLAMA_FAIL_COOLDOWN)),
                               snaps, t, env, tested \cup {candidate}, k - 1)
               ELSE [mm |-> sel, model |-> Some(candidate),
                     tested |-> tested \cup {candidate}]
          ELSE IF provider \in KeyedProviders /\ provider \notin env.keys
          THEN SelectLoop(mark_cooldown(sel, snaps, t, Some(candidate),
                                        Some(MISSING_KEY_COOLDOWN)),
                          snaps, t, env, tested \cup {candidate}, k - 1)
          ELSE [mm |-> sel, model |-> Some(candidate),
                tested |-> tested \cup {candidate}]

_select_llm_configuration(mm, snaps, t, env) ==
    LET configured == configure_candidates(mm, env.candidates)
    IN  SelectLoop(configured, snaps, t, env, {}, Len(configured.candidates))

(***************************************************************************)
(* Exceptions of an agent turn and _handle_model_failure                   *)
(***************************************************************************)
\* str(exc).lower(), token by token
Lower(tok) ==
    CASE tok = "Rate Limit" -> "rate limit"
      [] tok = "RATE_LIMIT" -> "rate_limit"
      [] tok = "Quota" -> "quota"
      [] tok = "Overloaded" -> "overloaded"
      [] tok = "Busy" -> "busy"
      [] OTHER -> tok

RATE_LIMIT_KEYWORDS == {"rate limit", "rate_limit", "quota", "exceeded"}
OVERLOAD_KEYWORDS == {"temperature", "overloaded", "busy", "unavailable", "capacity"}

\* any(keyword in message for keyword in keywords)
HasKeyword(message, keywords) ==
    \E i \in 1..Len(message) : Lower(message[i]) \in keywords

\* an exception: the attributes status_code, status, retry_after (Python values,
\* None when the attribute is missing) and the tokens of str(exc)
Exc(name, status_code, status, retry_after, message) ==
    [ name |-> name, status_code |-> status_code, status |-> status,
      retry_after |-> retry_after, message |-> message ]

E429 == Exc("RateLimitError", PyInt(429), None, PyStr(<<"2">>), <<"Too", "many", "requests">>)
EQuota == Exc("QuotaError", None, None, None, <<"Quota", "exceeded">>)
E503 == Exc("ServiceUnavailable", PyInt(0), PyInt(503), None, <<"upstream", "error">>)
EBusy == Exc("ProviderBusy", None, None, PyInt(7), <<"model", "is", "Busy">>)
EBoth == Exc("Overloaded429", PyStr(<<"4", "2", "9">>), None, None, <<"Overloaded">>)
EBadRequest == Exc("BadRequest", PyStr(<<"a">>), PyInt(503), None, <<"bad", "request">>)
Exceptions == {E429, EQuota, E503, EBusy, EBoth, EBadRequest}
\* the exceptions the implementation crew's kickoff may raise
ImplExceptions == {E429, EBadRequest}

\* getattr(exc, "status_code", None) or getattr(exc, "status", None), then int()
StatusInt(exc) ==
    LET status_code == IF Truthy(exc.status_code) THEN exc.status_code ELSE exc.status
    IN  IF status_code = None THEN None ELSE ToInt(status_code)

RetryAfterInt(exc) ==
    IF exc.retry_after = None THEN None ELSE ToInt(exc.retry_after)

is_rate_limited(exc) ==
    \/ (StatusInt(exc) # None /\ Val(StatusInt(exc)) = 429)
    \/ HasKeyword(exc.message, RATE_LIMIT_KEYWORDS)

is_overloaded(exc) ==
    \/ (StatusInt(exc) # None /\ Val(StatusInt(exc)) # 0 /\ Val(StatusInt(exc)) >= 500)
    \/ HasKeyword(exc.message, OVERLOAD_KEYWORDS)

\* a variant that tests overload before rate limiting
_handle_model_failure_swapped(mm, snaps, t, exc) ==
    LET model == current_model(mm)
    IN  IF model = None THEN [mm |-> mm, handled |-> FALSE]
        ELSE IF is_overloaded(exc)
        THEN [mm |-> mark_overheated(mm, t, model, None), handled |-> TRUE]
        ELSE IF is_rate_limited(exc)
        THEN [mm |-> mark_cooldown(mm, snaps, t, model, RetryAfterInt(exc)),
              handled |-> TRUE]
        ELSE [mm |-> mm, handled |-> FALSE]

\* a variant that treats every failure as retryable
_handle_model_failure_always(mm, snaps, t, exc) ==
    LET model == current_model(mm)
    IN  IF model = None THEN [mm |-> mm, handled |-> FALSE]
        ELSE IF is_rate_limited(exc)
        THEN [mm |-> mark_cooldown(mm, snaps, t, model, RetryAfterInt(exc)),
              handled |-> TRUE]
        ELSE [mm |-> mark_overheated(mm, t, model, None), handled |-> TRUE]

\* the manager after the call and the returned flag
_handle_model_failure(mm, snaps, t, exc) ==
    LET model == current_model(mm)
    IN  IF model = None THEN [mm |-> mm, handled |-> FALSE]
        ELSE IF is_rate_limited(exc)
        THEN [mm |-> mark_cooldown(mm, snaps, t, model, RetryAfterInt(exc)),
              handled |-> TRUE]
        ELSE IF is_overloaded(exc)
        THEN [mm |-> mark_overheated(mm, t, model, None), handled |-> TRUE]
        ELSE [mm |-> mm, handled |-> FALSE]

(***************************************************************************)
(* The state: the process-wide singletons and one run_iterative_kickoff    *)
(***************************************************************************)
VARIABLES
    model_manager,     \* telemetry.model_manager
    snapshots,         \* rate_limit_monitor._snapshots: model -> Optional snapshot
    now,               \* time.time()
    env,               \* the process environment, a member of Envs
    ops,               \* operations performed on the singletons before the run
    pc,                \* where run_iterative_kickoff stands
    phase,             \* its arguments: the phase ...
    factory,           \* ... and the kind of crew_factory
    iteration_cap,
    max_model_attempts,
    history,
    verdict,
    iteration,
    iteration_inputs,
    model_attempt,
    crew,              \* the crew instance of the current attempt: its id, its
                       \* model, the candidate whose failure it retries, and
                       \* the manager and the time when crew_factory was called
    crews_made,        \* crew instances built by crew_factory so far
    turns,             \* crew.kickoff calls so far
    iter_turns,        \* crew.kickoff calls of the current iteration
    start_candidates,  \* len(model_manager._candidates) when the run started
    impl_calls,        \* calls of _run_implementation_phase so far
    impl_returned,     \* what _run_implementation_phase returned, once it has
    failure,           \* the failed attempt just handled: the exception, the
                       \* handler's answer, the current model and the manager
                       \* before the handler ran
    exc,               \* the exception that left run_iterative_kickoff
    ret,               \* the dict run_iterative_kickoff returned
    call,              \* the function or ModelManager method the last step
                       \* called directly, with its arguments and its result;
                       \* NoCall after any other step
    studio_root,       \* the files under the studio root: one run directory,
                       \* output/index.md and knowledge/run_log.md
    invocations        \* run_iterative_kickoff invocations running in threads
                       \* of this process, next to the one above

vars == << model_manager, snapshots, now, env, ops, pc, phase, factory,
           iteration_cap, max_model_attempts, history, verdict, iteration,
           iteration_inputs, model_attempt, crew, crews_made, turns, iter_turns,
           start_candidates, impl_calls, impl_returned, failure, exc, ret,
           call, studio_root, invocations >>

singletons == << model_manager, snapshots >>
\* what no step of the run above, and no direct call, touches
elsewhere == << studio_root, invocations >>
run_vars == << phase, factory, iteration_cap, max_model_attempts, history, verdict,
               iteration, iteration_inputs, model_attempt, crew, crews_made, turns,
               iter_turns, start_candidates, impl_calls, impl_returned, failure,
               exc, ret >>

Phases == {"market", "studio", "art"}
\* the phases StudioCrew has agents and tasks for
CrewPhases == {"market", "design", "tech", "studio"}
\* the phases _run_implementation_phase supports
ImplementationPhases == {"market", "design", "tech"}
\* "scripted": a factory whose crews never touch the model manager (the tests'
\* CrewFactory); "studio": lambda: StudioCrew(phase=phase).crew()
FactoryKinds == {"scripted", "studio"}

TickStep == COOLDOWN_MIN_SECONDS

\* str(i) of an iteration index
Str(i) ==
    CASE i = 1 -> "1" [] i = 2 -> "2" [] i = 3 -> "3" [] i = 4 -> "4"
      [] i = 5 -> "5" [] OTHER -> "n"

\* the f-string of previous_feedback
FeedbackText(entry) ==
    <<"PREVIOUS REJECTION (Iteration ", Str(entry.iteration), "):\n">>
    \o entry.result
    \o <<"\n\n", "Address these concerns in your revised proposal.">>

\* a variant that feeds every previous round back, rejected or not
IterationInputs_anyverdict(hist, it, cap) ==
    [ iteration |-> it,
      max_iterations |-> cap,
      previous_result |-> IF hist = <<>> THEN None ELSE Some(hist[Len(hist)].result),
      previous_verdict |-> IF hist = <<>> THEN None ELSE Some(hist[Len(hist)].verdict),
      previous_feedback |->
          IF hist # <<>> THEN FeedbackText(hist[Len(hist)]) ELSE <<>> ]

\* iteration.py 51-69: the inputs of iteration `it` (base_inputs left out)
IterationInputs(hist, it, cap) ==
    [ iteration |-> it,
      max_iterations |-> cap,
      previous_result |-> IF hist = <<>> THEN None ELSE Some(hist[Len(hist)].result),
      previous_verdict |-> IF hist = <<>> THEN None ELSE Some(hist[Len(hist)].verdict),
      previous_feedback |->
          IF hist # <<>> /\ hist[Len(hist)].verdict = "REJECTED"
          THEN FeedbackText(hist[Len(hist)])
          ELSE <<>> ]

NoCall == [op |-> "none"]

\* a studio root without a run: no run directory, no index, an empty log
EmptyRoot ==
    [run_phase |-> None, run_json |-> None, files |-> {}, index |-> None,
     run_log |-> <<>>]

\* an invocation that has not been called
NotCalled ==
    [pc |-> "idle", model |-> None, model_attempt |-> 0, max_model_attempts |-> 0,
     failure |-> None]

Threads == {1, 2}

NoCrew == [id |-> 0, model |-> None, retry_of |-> None, before |-> NewManager, at |-> 0]

\* the candidate that was current when the attempt before this one failed
RetryOf(fail) == IF fail = None THEN None ELSE Val(fail).model

Init ==
    /\ env \in Envs
    \* telemetry.py 238-239, 323: the singletons after import
    /\ model_manager = configure_candidates(NewManager, env.candidates)
    /\ snapshots = [m \in AllModels |-> None]
    /\ now = 0
    /\ ops = 0
    /\ pc = "idle"
    /\ phase = "market"
    /\ factory = "scripted"
    /\ iteration_cap = 0
    /\ max_model_attempts = 0
    /\ history = <<>>
    /\ verdict = "UNKNOWN"
    /\ iteration = 0
    /\ iteration_inputs = None
    /\ model_attempt = 0
    /\ crew = NoCrew
    /\ crews_made = 0
    /\ turns = 0
    /\ iter_turns = 0
    /\ start_candidates = 0
    /\ impl_calls = 0
    /\ impl_returned = None
    /\ failure = None
    /\ exc = None
    /\ ret = None
    /\ call = NoCall
    /\ studio_root = EmptyRoot
    /\ invocations = [i \in Threads |-> NotCalled]

(***************************************************************************)
(* Operations on the singletons before the run (earlier runs, callbacks,   *)
(* tests), and the clock                                                   *)
(***************************************************************************)
\* the retry_after arguments tried
RetryAfters == {None, Some(2)}

Idle == pc = "idle" /\ ops < MaxOps

MarkCooldown(model, retry_after) ==
    /\ UNCHANGED elsewhere
    /\ call' = NoCall
    /\ Idle
    /\ model_manager' = mark_cooldown(model_manager, snapshots, now, Some(model), retry_after)
    /\ ops' = ops + 1
    /\ UNCHANGED << snapshots, now, env, pc, run_vars >>

MarkOverheated(model) ==
    /\ UNCHANGED elsewhere
    /\ call' = NoCall
    /\ Idle
    /\ model_manager' = mark_overheated(model_manager, now, Some(model), None)
    /\ ops' = ops + 1
    /\ UNCHANGED << snapshots, now, env, pc, run_vars >>

\* reset_telemetry_state_for_tests
Reset ==
    /\ UNCHANGED elsewhere
    /\ call' = NoCall
    /\ Idle
    /\ model_manager' = reset(model_manager)
    /\ snapshots' = [m \in AllModels |-> None]
    /\ ops' = ops + 1
    /\ UNCHANGED << now, env, pc, run_vars >>

\* RateLimitMonitor.update, from LiteLLMRateLimitCallback._handle_headers
MonitorUpdate(model, h) ==
    /\ UNCHANGED elsewhere
    /\ call' = NoCall
    /\ Idle
    /\ snapshots' = [snapshots EXCEPT ![model] = Some(MonitorSnapshot(h))]
    /\ ops' = ops + 1
    /\ UNCHANGED << model_manager, now, env, pc, run_vars >>

\* ModelManager.select_model, called on its own; with no candidate it raises
SelectModel ==
    /\ UNCHANGED elsewhere
    /\ call' = NoCall
    /\ Idle
    /\ model_manager' = select_model(model_manager, snapshots, now)
    /\ ops' = ops + 1
    /\ UNCHANGED << snapshots, now, env, pc, run_vars >>

\* time passes while a crew's kickoff is in flight
Tick ==
    /\ UNCHANGED elsewhere
    /\ call' = NoCall
    /\ pc = "kickoff"
    /\ now + TickStep <= MaxTime
    /\ now' = now + TickStep
    /\ UNCHANGED << singletons, env, ops, pc, run_vars >>

(***************************************************************************)
(* run_iterative_kickoff                                                   *)
(***************************************************************************)
\* a variant that allows one attempt more than there are candidates
MaxModelAttempts_plus(mm) == Len(mm.candidates) + 1

\* a variant that allows two attempts per candidate
MaxModelAttempts_twice(mm) == 2 * Max(1, Len(mm.candidates))

\* iteration.py 47-48
MaxModelAttempts(mm) == Max(1, IF Len(mm.candidates) = 0 THEN 1 ELSE Len(mm.candidates))

\* a variant that extracts a verdict in the studio phase too
RoundVerdict_always(ph, v, result_str) == extract_verdict(result_str)

\* iteration.py 89-90: the verdict variable after the round
RoundVerdict(ph, v, result_str) ==
    IF ph # "studio" THEN extract_verdict(result_str) ELSE v

\* iteration.py 92-98
DebateRecord(it, result_str, ph, v) ==
    [ iteration |-> it, result |-> result_str,
      verdict |-> IF ph # "studio" THEN v ELSE "UNKNOWN" ]

\* a variant that only stops at the cap
LoopBreaks_never(ph, v) == ph = "studio"

\* iteration.py 100
LoopBreaks(ph, v) == ph = "studio" \/ v = "APPROVED"

\* a variant that runs the implementation turn whatever the verdict
RunsImplementation_always(ph, v) == ph # "studio"

\* iteration.py 105
RunsImplementation(ph, v) == v = "APPROVED" /\ ph # "studio"

\* a variant that numbers the record like the record before it
ImplementationRecord_repeat(hist, implementation_result) ==
    [ iteration |-> Len(hist), result |-> implementation_result,
      verdict |-> "IMPLEMENTATION", phase |-> "implementation" ]

\* iteration.py 108-113
ImplementationRecord(hist, implementation_result) ==
    [ iteration |-> Len(hist) + 1, result |-> implementation_result,
      verdict |-> "IMPLEMENTATION", phase |-> "implementation" ]

\* a variant that flags the limit whenever the cap is reached
LimitReached_loose(hist, cap, accepted, ph) == Len(hist) >= cap

\* iteration.py 116
LimitReached(hist, cap, accepted, ph) ==
    Len(hist) >= cap /\ ~accepted /\ ph # "studio"

\* iteration.py 115-128: the returned dict
ReturnValue(hist, v, ph, cap, mm, snaps) ==
    LET final == hist[Len(hist)]
        accepted == v = "APPROVED"
    IN  [ result |-> final.result,
          verdict |-> final.verdict,
          iterations_run |-> Len(hist),
          history |-> hist,
          accepted |-> accepted,
          limit_reached |-> LimitReached(hist, cap, accepted, ph),
          max_iterations |-> cap,
          rate_limits |-> snaps,
          model_strategy |-> mm ]

\* a variant that retries a failure the handler did not handle
MayRetry_unhandled(handled, attempt, max_attempts) == attempt < max_attempts

\* a variant that allows one attempt too many
MayRetry_extra(handled, attempt, max_attempts) == handled /\ attempt <= max_attempts

\* iteration.py 81
MayRetry(handled, attempt, max_attempts) == handled /\ attempt < max_attempts

\* iteration.py 73
WhileContinues(attempt, max_attempts) == attempt < max_attempts

\* iteration.py 43-53: the call, up to the first crew_factory()
Start(ph, raw, kind) ==
    /\ UNCHANGED elsewhere
    /\ pc = "idle"
    /\ kind = "studio" => ph \in CrewPhases
    /\ phase' = ph
    /\ factory' = kind
    /\ iteration_cap' = _safe_max_iterations(raw)
    /\ call' = [op |-> "_safe_max_iterations", raw_value |-> raw,
                result |-> _safe_max_iterations(raw)]
    /\ history' = <<>>
    /\ verdict' = "UNKNOWN"
    /\ max_model_attempts' = MaxModelAttempts(model_manager)
    /\ iteration' = 1
    /\ iteration_inputs' = Some(IterationInputs(<<>>, 1, _safe_max_iterations(raw)))
    /\ model_attempt' = 0
    /\ start_candidates' = Len(model_manager.candidates)
    /\ pc' = "factory"
    /\ UNCHANGED << singletons, now, env, ops, crew, crews_made, turns, iter_turns,
                    impl_calls, impl_returned, failure, exc, ret >>

\* iteration.py 74-76 with the tests' factory: a fresh crew, then crew.kickoff
ScriptedFactory ==
    /\ UNCHANGED elsewhere
    /\ call' = NoCall
    /\ pc = "factory"
    /\ factory = "scripted"
    /\ crews_made' = crews_made + 1
    /\ crew' = [id |-> crews_made + 1, model |-> None, retry_of |-> RetryOf(failure),
                before |-> model_manager, at |-> now]
    /\ turns' = turns + 1
    /\ iter_turns' = iter_turns + 1
    /\ failure' = None
    /\ pc' = "kickoff"
    /\ UNCHANGED << singletons, now, env, ops, phase, factory, iteration_cap,
                    max_model_attempts, history, verdict, iteration,
                    iteration_inputs, model_attempt, start_candidates, impl_calls,
                    impl_returned, exc, ret >>

\* iteration.py 74-76 with StudioCrew(phase).crew(): the crew is built on the
\* model _select_llm_configuration returns, then crew.kickoff is called
StudioFactory ==
    /\ UNCHANGED elsewhere
    /\ call' = NoCall
    /\ pc = "factory"
    /\ factory = "studio"
    /\ LET r == _select_llm_configuration(model_manager, snapshots, now, env)
       IN  /\ r.model # None
           /\ model_manager' = r.mm
           /\ crew' = [id |-> crews_made + 1, model |-> r.model,
                       retry_of |-> RetryOf(failure),
                       before |-> model_manager, at |-> now]
    /\ crews_made' = crews_made + 1
    /\ turns' = turns + 1
    /\ iter_turns' = iter_turns + 1
    /\ failure' = None
    /\ pc' = "kickoff"
    /\ UNCHANGED << snapshots, now, env, ops, phase, factory, iteration_cap,
                    max_model_attempts, history, verdict, iteration,
                    iteration_inputs, model_attempt, start_candidates, impl_calls,
                    impl_returned, exc, ret >>

EnvironmentError == Exc("EnvironmentError", None, None, None, <<"No", "usable", "LLM", "provider">>)

\* crew_factory() raises: no candidate passed its check (crew.py 104-107);
\* the call is outside the try block, so the error leaves the run
StudioFactoryRaises ==
    /\ UNCHANGED elsewhere
    /\ call' = NoCall
    /\ pc = "factory"
    /\ factory = "studio"
    /\ LET r == _select_llm_configuration(model_manager, snapshots, now, env)
       IN  /\ r.model = None
           /\ model_manager' = r.mm
    /\ exc' = Some(EnvironmentError)
    /\ failure' = None
    /\ pc' = "raised"
    /\ UNCHANGED << snapshots, now, env, ops, phase, factory, iteration_cap,
                    max_model_attempts, history, verdict, iteration,
                    iteration_inputs, model_attempt, crew, crews_made, turns,
                    iter_turns, start_candidates, impl_calls, impl_returned, ret >>

\* iteration.py 76-77, 85-101 and, when the loop ends, 103-128: crew.kickoff
\* returns a result whose str() is result_str
KickoffReturns(result_str) ==
    /\ UNCHANGED elsewhere
    /\ call' = NoCall
    /\ pc = "kickoff"
    /\ LET v == RoundVerdict(phase, verdict, result_str)
           hist == Append(history, DebateRecord(iteration, result_str, phase, v))
       IN  /\ verdict' = v
           /\ history' = hist
           /\ IF ~LoopBreaks(phase, v) /\ iteration < iteration_cap
              THEN \* the next iteration, up to its crew_factory()
                   /\ iteration' = iteration + 1
                   /\ iteration_inputs' =
                          Some(IterationInputs(hist, iteration + 1, iteration_cap))
                   /\ model_attempt' = 0
                   /\ iter_turns' = 0
                   /\ pc' = "factory"
                   /\ UNCHANGED << impl_calls, ret >>
              ELSE IF RunsImplementation(phase, v)
              THEN \* _run_implementation_phase is called
                   /\ impl_calls' = impl_calls + 1
                   /\ pc' = "implementation"
                   /\ UNCHANGED << iteration, iteration_inputs, model_attempt,
                                   iter_turns, ret >>
              ELSE /\ ret' = Some(ReturnValue(hist, v, phase, iteration_cap,
                                              model_manager, snapshots))
                   /\ pc' = "returned"
                   /\ UNCHANGED << iteration, iteration_inputs, model_attempt,
                                   iter_turns, impl_calls >>
    /\ UNCHANGED << singletons, now, env, ops, phase, factory, iteration_cap,
                    max_model_attempts, crew, crews_made, turns, start_candidates,
                    impl_returned, failure, exc >>

RuntimeError == Exc("RuntimeError", None, None, None,
                    <<"All", "configured", "models", "failed", "before", "producing", "a", "result.">>)

\* iteration.py 76-77, 85-86: crew.kickoff returns None
KickoffReturnsNone ==
    /\ UNCHANGED elsewhere
    /\ call' = NoCall
    /\ pc = "kickoff"
    /\ exc' = Some(RuntimeError)
    /\ pc' = "raised"
    /\ UNCHANGED << singletons, now, env, ops, phase, factory, iteration_cap,
                    max_model_attempts, history, verdict, iteration,
                    iteration_inputs, model_attempt, crew, crews_made, turns,
                    iter_turns, start_candidates, impl_calls, impl_returned,
                    failure, ret >>

\* iteration.py 78-83: crew.kickoff raises e
KickoffRaises(e) ==
    /\ UNCHANGED elsewhere
    /\ call' = NoCall
    /\ pc = "kickoff"
    /\ ops < MaxOps
    /\ ops' = ops + 1
    /\ LET h == _handle_model_failure(model_manager, snapshots, now, e)
       IN  /\ model_manager' = h.mm
           /\ model_attempt' = model_attempt + 1
           /\ failure' = Some([ exc |-> e, handled |-> h.handled,
                                model |-> current_model(model_manager),
                                before |-> model_manager ])
           /\ IF MayRetry(h.handled, model_attempt + 1, max_model_attempts)
              THEN \* continue: the while condition is tested again
                   IF WhileContinues(model_attempt + 1, max_model_attempts)
                   THEN pc' = "factory" /\ exc' = exc
                   ELSE pc' = "raised" /\ exc' = Some(RuntimeError)
              ELSE \* raise: the exception leaves the run
                   pc' = "raised" /\ exc' = Some(e)
    /\ UNCHANGED << snapshots, now, env, phase, factory, iteration_cap,
                    max_model_attempts, history, verdict, iteration,
                    iteration_inputs, crew, crews_made, turns, iter_turns,
                    start_candidates, impl_calls, impl_returned, ret >>

\* implementation.py 27-28: the phase has no implementation turn
ImplementationUnsupported ==
    /\ UNCHANGED elsewhere
    /\ call' = NoCall
    /\ pc = "implementation"
    /\ phase \notin ImplementationPhases
    /\ ret' = Some(ReturnValue(history, verdict, phase, iteration_cap,
                               model_manager, snapshots))
    /\ impl_returned' = Some(None)
    /\ pc' = "returned"
    /\ UNCHANGED << singletons, now, env, ops, phase, factory, iteration_cap,
                    max_model_attempts, history, verdict, iteration,
                    iteration_inputs, model_attempt, crew, crews_made, turns,
                    iter_turns, start_candidates, impl_calls, failure, exc >>

\* implementation.py 30-78 and iteration.py 107-128: the implementation crew's
\* kickoff returns a result whose str() is implementation_result
ImplementationReturns(implementation_result) ==
    /\ UNCHANGED elsewhere
    /\ call' = NoCall
    /\ pc = "implementation"
    /\ phase \in ImplementationPhases
    /\ LET r == _select_llm_configuration(model_manager, snapshots, now, env)
           hist == IF implementation_result # <<>>
                   THEN Append(history, ImplementationRecord(history, implementation_result))
                   ELSE history
       IN  /\ r.model # None
           /\ model_manager' = r.mm
           /\ history' = hist
           /\ ret' = Some(ReturnValue(hist, verdict, phase, iteration_cap, r.mm, snapshots))
    /\ impl_returned' = Some(Some(implementation_result))
    /\ pc' = "returned"
    /\ UNCHANGED << snapshots, now, env, ops, phase, factory, iteration_cap,
                    max_model_attempts, verdict, iteration, iteration_inputs,
                    model_attempt, crew, crews_made, turns, iter_turns,
                    start_candidates, impl_calls, failure, exc >>

\* implementation.py 30 or 77: StudioCrew(phase) finds no usable provider, or
\* the implementation crew's kickoff raises e; nothing catches either
ImplementationRaises(e) ==
    /\ UNCHANGED elsewhere
    /\ call' = NoCall
    /\ pc = "implementation"
    /\ phase \in ImplementationPhases
    /\ LET r == _select_llm_configuration(model_manager, snapshots, now, env)
       IN  /\ model_manager' = r.mm
           /\ exc' = IF r.model = None THEN Some(EnvironmentError) ELSE Some(e)
    /\ pc' = "raised"
    /\ UNCHANGED << snapshots, now, env, ops, phase, factory, iteration_cap,
                    max_model_attempts, history, verdict, iteration,
                    iteration_inputs, model_attempt, crew, crews_made, turns,
                    iter_turns, start_candidates, impl_calls, impl_returned,
                    failure, ret >>

Next ==
    \/ \E m \in AllModels, r \in RetryAfters : MarkCooldown(m, r)
    \/ \E m \in AllModels : MarkOverheated(m)
    \/ Reset
    \/ \E m \in AllModels, h \in HeaderSets : MonitorUpdate(m, h)
    \/ SelectModel
    \/ Tick
    \/ \E ph \in Phases, raw \in RawValues, kind \in FactoryKinds : Start(ph, raw, kind)
    \/ ScriptedFactory
    \/ StudioFactory
    \/ StudioFactoryRaises
    \/ \E t \in Texts : KickoffReturns(t)
    \/ KickoffReturnsNone
    \/ \E e \in Exceptions : KickoffRaises(e)
    \/ ImplementationUnsupported
    \/ \E t \in ImplTexts : ImplementationReturns(t)
    \/ \E e \in ImplExceptions : ImplementationRaises(e)

Spec == Init /\ [][Next]_vars

\* the steps of run_iterative_kickoff after the call: each is a call of the
\* crew factory, an agent turn or the implementation turn coming back
RunStep ==
    \/ ScriptedFactory
    \/ StudioFactory
    \/ StudioFactoryRaises
    \/ \E t \in Texts : KickoffReturns(t)
    \/ KickoffReturnsNone
    \/ \E e \in Exceptions : KickoffRaises(e)
    \/ ImplementationUnsupported
    \/ \E t \in ImplTexts : ImplementationReturns(t)
    \/ \E e \in ImplExceptions : ImplementationRaises(e)

\* one run on the singletons as the import left them, nothing else calling
\* them meanwhile
RunNext ==
    \/ \E ph \in Phases, raw \in RawValues, kind \in FactoryKinds : Start(ph, raw, kind)
    \/ RunStep

\* every call the run makes returns or raises: the run is never left waiting
SpecLive == Init /\ [][RunNext]_vars /\ WF_vars(RunStep)

TypeOK ==
    /\ pc \in {"idle", "factory", "kickoff", "implementation", "returned", "raised"}
    /\ now \in 0..MaxTime
    /\ ops \in 0..MaxOps

(***************************************************************************)
(* The model manager and the monitor called directly, one call per step,   *)
(* with the clock moving between the calls                                  *)
(***************************************************************************)
\* the number of calls made and the last clock value looked at
MaxCalls == 3
MaxClock == 10

\* the arguments tried
CandidateLists == { <<>>, <<Gemini>>, <<Ollama, Gemini>> }
CallRetryAfters == {None, Some(0), Some(2)}
CallCooldownSeconds == {None, Some(2)}
\* headers that leave headroom and carry a retry-after of 0
RoomyHeaders ==
    [rr |-> Some(9), lr |-> Some(10), rt |-> Some(9), lt |-> Some(10), ra |-> Some(0)]
\* what the monitor holds when the calls begin: nothing, or the snapshots of
\* earlier responses
SnapshotStates ==
    { [m \in AllModels |-> None],
      [m \in AllModels |-> IF m = Gemini THEN Some(MonitorSnapshot(RoomyHeaders)) ELSE None] }
    \cup
    { [m \in AllModels |-> IF m \in low THEN Some(MonitorSnapshot(h)) ELSE None] :
          low \in {{Gemini}, {Ollama}, AllModels}, h \in HeaderSets }
AdvanceStep == COOLDOWN_MIN_SECONDS

Callable == pc = "idle" /\ ops < MaxCalls

\* ModelManager.configure_candidates(ordered_models)
CallConfigureCandidates(ordered_models) ==
    /\ UNCHANGED elsewhere
    /\ Callable
    /\ model_manager' = configure_candidates(model_manager, ordered_models)
    /\ call' = [op |-> "configure_candidates", ordered_models |-> ordered_models]
    /\ ops' = ops + 1
    /\ UNCHANGED << snapshots, now, env, pc, run_vars >>

\* ModelManager.mark_cooldown(model, retry_after)
CallMarkCooldown(model, retry_after) ==
    /\ UNCHANGED elsewhere
    /\ Callable
    /\ model_manager' = mark_cooldown(model_manager, snapshots, now, model, retry_after)
    /\ call' = [op |-> "mark_cooldown", model |-> model, retry_after |-> retry_after]
    /\ ops' = ops + 1
    /\ UNCHANGED << snapshots, now, env, pc, run_vars >>

\* ModelManager.mark_overheated(model, cooldown_seconds=cooldown_seconds)
CallMarkOverheated(model, cooldown_seconds) ==
    /\ UNCHANGED elsewhere
    /\ Callable
    /\ model_manager' = mark_overheated(model_manager, now, model, cooldown_seconds)
    /\ call' = [op |-> "mark_overheated", model |-> model,
                cooldown_seconds |-> cooldown_seconds]
    /\ ops' = ops + 1
    /\ UNCHANGED << snapshots, now, env, pc, run_vars >>

\* ModelManager.select_model(): result None stands for the IndexError of
\* available[0] on an empty list
CallSelectModel ==
    /\ UNCHANGED elsewhere
    /\ Callable
    /\ model_manager' = select_model(model_manager, snapshots, now)
    /\ call' = [op |-> "select_model",
                result |-> select_choice(model_manager, snapshots, now)]
    /\ ops' = ops + 1
    /\ UNCHANGED << snapshots, now, env, pc, run_vars >>

\* reset_telemetry_state_for_tests(): the monitor's reset and the manager's
CallReset ==
    /\ UNCHANGED elsewhere
    /\ Callable
    /\ model_manager' = reset(model_manager)
    /\ snapshots' = [m \in AllModels |-> None]
    /\ call' = [op |-> "reset"]
    /\ ops' = ops + 1
    /\ UNCHANGED << now, env, pc, run_vars >>

\* time.time() moves on between two calls
Advance ==
    /\ UNCHANGED elsewhere
    /\ pc = "idle"
    /\ now + AdvanceStep <= MaxClock
    /\ now' = now + AdvanceStep
    /\ call' = NoCall
    /\ UNCHANGED << singletons, env, ops, pc, run_vars >>

ManagerNext ==
    \/ \E l \in CandidateLists : CallConfigureCandidates(l)
    \/ \E m \in AllModels, r \in CallRetryAfters :
           CallMarkCooldown(Some(m), r)
    \/ \E m \in AllModels, c \in CallCooldownSeconds :
           CallMarkOverheated(Some(m), c)
    \/ CallSelectModel
    \/ CallReset
    \/ Advance

\* the singletons as the import left them, the monitor holding the snapshots
\* of earlier responses
ManagerInit ==
    /\ env = [candidates |-> <<Gemini, Ollama>>, keys |-> {"gemini"}, healthy |-> TRUE]
    /\ model_manager = configure_candidates(NewManager, env.candidates)
    /\ snapshots \in SnapshotStates
    /\ now = 0
    /\ ops = 0
    /\ pc = "idle"
    /\ call = NoCall
    /\ studio_root = EmptyRoot
    /\ invocations = [i \in Threads |-> NotCalled]
    /\ phase = "market"
    /\ factory = "scripted"
    /\ iteration_cap = 0
    /\ max_model_attempts = 0
    /\ history = <<>>
    /\ verdict = "UNKNOWN"
    /\ iteration = 0
    /\ iteration_inputs = None
    /\ model_attempt = 0
    /\ crew = NoCrew
    /\ crews_made = 0
    /\ turns = 0
    /\ iter_turns = 0
    /\ start_candidates = 0
    /\ impl_calls = 0
    /\ impl_returned = None
    /\ failure = None
    /\ exc = None
    /\ ret = None

SpecManager == ManagerInit /\ [][ManagerNext]_vars

(***************************************************************************)
(* Python float arithmetic (IEEE 754 binary64, round to nearest, ties to    *)
(* even) as far as scopes.py uses it. A positive float is a record          *)
(* [m, e]: m its 53 significand bits, most significant first, and its value *)
(* is m read as a binary number times 2^e.                                  *)
(***************************************************************************)
SignificandBits == 53

\* the smallest k >= 0 with a * 2^k >= b
RECURSIVE ShiftTo(_, _, _)
ShiftTo(a, b, k) == IF a >= b THEN k ELSE ShiftTo(2 * a, b, k + 1)

RECURSIVE Pow2(_)
Pow2(k) == IF k = 0 THEN 1 ELSE 2 * Pow2(k - 1)

\* 2^x mod b
RECURSIVE PowMod(_, _)
PowMod(x, b) ==
    IF x = 0 THEN 1 % b
    ELSE CHOOSE v \in { (IF x % 2 = 0 THEN h * h ELSE 2 * h * h) % b :
                          h \in {PowMod(x \div 2, b)} } : TRUE

\* (2^j * a) mod b: what is left of a / b after j more bits of the quotient
Remainder(a, b, j) == (PowMod(j, b) * (a % b)) % b

\* the first n bits of the binary expansion of a / b, for b <= a < 2 * b
QuotientBits(a, b, n) ==
    [i \in 1..n |-> IF i = 1 THEN 1 ELSE (2 * Remainder(a, b, i - 2)) \div b]

\* bits + 1, as a bit sequence one longer when every bit was 1
Increment(bits) ==
    IF \A i \in 1..Len(bits) : bits[i] = 1
    THEN <<1>> \o [i \in 1..Len(bits) |-> 0]
    ELSE LET p == CHOOSE i \in 1..Len(bits) :
                      bits[i] = 0 /\ \A j \in (i + 1)..Len(bits) : bits[j] = 1
         IN  [i \in 1..Len(bits) |-> IF i < p THEN bits[i] ELSE IF i = p THEN 1 ELSE 0]

\* the float nearest to the number whose bits are `bits` (at least 53 of them,
\* the first a 1, the last worth 2^e), `sticky` telling that the exact value
\* lies above it
RoundToFloat(bits, e, sticky) ==
    LET extra == Len(bits) - SignificandBits
        kept == SubSeq(bits, 1, SignificandBits)
        half == extra > 0 /\ bits[SignificandBits + 1] = 1
        rest == sticky \/ \E i \in (SignificandBits + 2)..Len(bits) : bits[i] = 1
        up == half /\ (rest \/ kept[SignificandBits] = 1)
        raised == Increment(kept)
    IN  IF ~up THEN [m |-> kept, e |-> e + extra]
        ELSE IF Len(raised) = SignificandBits THEN [m |-> raised, e |-> e + extra]
        ELSE [m |-> SubSeq(raised, 1, SignificandBits), e |-> e + extra + 1]

\* a / b for ints 0 < a <= b
FloatDiv(a, b) ==
    LET k == ShiftTo(a, b, 0)
        scaled == a * Pow2(k)
    IN  CHOOSE f \in { RoundToFloat(bits, 0 - k - SignificandBits,
                                     Remainder(scaled, b, SignificandBits) # 0) :
                          bits \in {QuotientBits(scaled, b, SignificandBits + 1)} } :
            TRUE

\* the binary digits of n > 0
RECURSIVE Binary(_)
Binary(n) == IF n = 0 THEN <<>> ELSE Binary(n \div 2) \o <<n % 2>>

RECURSIVE BitsValue(_, _)
BitsValue(bits, acc) ==
    IF bits = <<>> THEN acc ELSE BitsValue(Tail(bits), 2 * acc + bits[1])

\* the arithmetic below works on 13 bits at a time
LimbBits == 13

\* x < 2^13 as 13 bits
Limb(x) == [i \in 1..LimbBits |-> (x \div Pow2(LimbBits - i)) % 2]

\* the bits of n * bits, n > 0, worked out limb by limb from bit `last` back
RECURSIVE TimesBits(_, _, _, _, _)
TimesBits(bits, last, n, carry, acc) ==
    LET first == Max(1, last - LimbBits + 1)
    IN  CHOOSE p \in
            { IF first = 1 THEN Binary(x) \o acc
              ELSE TimesBits(bits, first - 1, n, x \div Pow2(LimbBits),
                             Limb(x % Pow2(LimbBits)) \o acc) :
                  x \in {n * BitsValue(SubSeq(bits, first, last), 0) + carry} } : TRUE

\* n * f for an int n > 0 and a float f
FloatMulInt(n, f) ==
    CHOOSE g \in { RoundToFloat(p, f.e, FALSE) :
                      p \in {TimesBits(f.m, Len(f.m), n, 0, <<>>)} } : TRUE

\* int(f) for a float f below 2^53
IntOfFloat(f) ==
    IF SignificandBits + f.e <= 0 THEN 0
    ELSE BitsValue(SubSeq(f.m, 1, SignificandBits + f.e), 0)

(***************************************************************************)
(* scopes.py: ScopesConfig and allocate_iterations. A ScopesConfig is its   *)
(* list of scopes [name, max_iterations]; a dict is a function on its keys  *)
(***************************************************************************)
RECURSIVE SumTo(_, _)
\* ScopesConfig.total_iterations
total_iterations(scopes) == SumTo(scopes, Len(scopes))
SumTo(scopes, n) == IF n = 0 THEN 0 ELSE SumTo(scopes, n - 1) + scopes[n].max_iterations

\* int(total_budget * proportion), proportion = max_iterations / config_total
ScaledShare(total_budget, max_iterations, config_total) ==
    IF total_budget = 0 THEN 0
    ELSE CHOOSE v \in
             { IF total_budget > 0 THEN IntOfFloat(product) ELSE 0 - IntOfFloat(product) :
                   product \in
                       { FloatMulInt(IF total_budget > 0 THEN total_budget
                                     ELSE 0 - total_budget, proportion) :
                             proportion \in {FloatDiv(max_iterations, config_total)} } } :
             TRUE

\* scopes.py 159-160
Allocated(total_budget, max_iterations, config_total) ==
    Max(1, ScaledShare(total_budget, max_iterations, config_total))

\* a variant that gives the last scope its proportional share too
LastShare_proportional(remaining_budget, total_budget, max_iterations, config_total) ==
    Allocated(total_budget, max_iterations, config_total)

\* scopes.py 154-156
LastShare(remaining_budget, total_budget, max_iterations, config_total) ==
    remaining_budget

\* a variant that only passes the config values through without a budget
UsesConfigValues_absent(total_budget, config_total) == total_budget = None

\* scopes.py 145
UsesConfigValues(total_budget, config_total) ==
    total_budget = None \/ Val(total_budget) = config_total

\* d[key] = value
SetItem(d, key, value) == (key :> value) @@ d

\* scopes.py 153-162: the loop from scope i on
RECURSIVE AllocateLoop(_, _, _, _, _, _)
AllocateLoop(scopes, total_budget, config_total, i, remaining_budget, allocations) ==
    IF i > Len(scopes) THEN allocations
    ELSE IF i = Len(scopes)
    THEN SetItem(allocations, scopes[i].name,
                 LastShare(remaining_budget, total_budget,
                           scopes[i].max_iterations, config_total))
    ELSE CHOOSE d \in
             { AllocateLoop(scopes, total_budget, config_total, i + 1,
                            remaining_budget - allocated,
                            SetItem(allocations, scopes[i].name, allocated)) :
                   allocated \in
                       {Allocated(total_budget, scopes[i].max_iterations, config_total)} } :
             TRUE

allocate_iterations(scopes, total_budget) ==
    LET config_total == total_iterations(scopes)
    IN  IF UsesConfigValues(total_budget, config_total)
        THEN [name \in {scopes[i].name : i \in 1..Len(scopes)} |->
                 LET i == CHOOSE j \in 1..Len(scopes) :
                              /\ scopes[j].name = name
                              /\ \A k \in (j + 1)..Len(scopes) : scopes[k].name # name
                 IN  scopes[i].max_iterations]
        ELSE AllocateLoop(scopes, Val(total_budget), config_total, 1,
                          Val(total_budget), <<>>)

\* the largest total_budget tried
MaxBudget == 44

\* the declared max_iterations tried (ScopeConfig.__post_init__: at least 1)
ShareValues == {1, 2, 3, 4, 7, 15}
ScopeNames == <<"high_level", "implementation", "polish">>
\* the configurations tried: one to three scopes, their names distinct
ScopesConfigs ==
    UNION { { [i \in 1..n |-> [name |-> ScopeNames[i], max_iterations |-> shares[i]]] :
                  shares \in [1..n -> ShareValues] } : n \in 1..Len(ScopeNames) }
Budgets == {None} \cup {Some(b) : b \in (0 - 1)..MaxBudget}

(***************************************************************************)
(* rerun.py: the rejection context and its injection into a prompt.  A     *)
(* prompt is a sequence of tokens; an injection marker is one token.       *)
(***************************************************************************)
INJECTION_MARKERS == <<"## Deliverables", "## Your Task", "## Requirements", "---">>

RejectionContext(number, role, reasons, full_text) ==
    [iteration |-> number, role |-> role, reasons |-> reasons,
     full_text |-> full_text]

\* "\n".join(lines)
RECURSIVE JoinLines(_)
JoinLines(lines) ==
    IF lines = <<>> THEN <<>>
    ELSE IF Len(lines) = 1 THEN lines[1]
    ELSE lines[1] \o <<"\n">> \o JoinLines(Tail(lines))

\* f"{i}. {reason}" for i, reason in enumerate(reasons, 1)
NumberedReasons(reasons) ==
    [i \in 1..Len(reasons) |-> <<Str(i), ". ", reasons[i]>>]

format_for_prompt(self) ==
    IF self.reasons = <<>> THEN <<>>
    ELSE JoinLines(<< <<"**Previous iteration was REJECTED for the following reasons:**">>,
                      <<>> >>
                   \o NumberedReasons(self.reasons)
                   \o << <<>>,
                         <<"Please address these concerns in your revised proposal.">> >>)

\* base_prompt.find(marker): the 0-based position of the first occurrence, or -1
Find(text, marker) ==
    IF \E i \in 1..Len(text) : text[i] = marker
    THEN (CHOOSE i \in 1..Len(text) :
              /\ text[i] = marker
              /\ \A j \in 1..(i - 1) : text[j] # marker) - 1
    ELSE 0 - 1

Min(a, b) == IF a <= b THEN a ELSE b

\* the loop keeping the position of the last marker found
RECURSIVE InjectionPoint_lastfound(_, _, _)
InjectionPoint_lastfound(base_prompt, k, injection_point) ==
    IF k > Len(INJECTION_MARKERS) THEN injection_point
    ELSE LET pos == Find(base_prompt, INJECTION_MARKERS[k])
         IN  InjectionPoint_lastfound(base_prompt, k + 1,
                                      IF pos # 0 - 1 THEN pos ELSE injection_point)

\* the loop over injection_markers, from the k-th marker on
RECURSIVE InjectionPoint(_, _, _)
InjectionPoint(base_prompt, k, injection_point) ==
    IF k > Len(INJECTION_MARKERS) THEN injection_point
    ELSE LET pos == Find(base_prompt, INJECTION_MARKERS[k])
         IN  InjectionPoint(base_prompt, k + 1,
                            IF pos # 0 - 1 THEN Min(injection_point, pos)
                            ELSE injection_point)

ReturnsBasePrompt_absent(context) == IsNone(context)

\* not context or not context.reasons (a RejectionContext is always truthy)
ReturnsBasePrompt(context) == IsNone(context) \/ Val(context).reasons = <<>>

inject_context_into_prompt(base_prompt, context) ==
    IF ReturnsBasePrompt(context) THEN base_prompt
    ELSE LET injection_point == InjectionPoint(base_prompt, 1, Len(base_prompt))
             context_section == << <<>>, <<"---">>, <<>>,
                                   format_for_prompt(Val(context)),
                                   <<>>, <<"---">>, <<>> >>
         IN  SubSeq(base_prompt, 1, injection_point)
             \o JoinLines(context_section)
             \o SubSeq(base_prompt, injection_point + 1, Len(base_prompt))

\* the longest base prompt tried, in tokens
MaxPromptLen == 3

PromptTokens ==
    {"# Advocate Prompt", "\n", "Your task...", "## Deliverables", "## Your Task", "---"}
BasePrompts == UNION { [1..n -> PromptTokens] : n \in 0..MaxPromptLen }
ReasonLists ==
    { <<>>, <<"Missing cost analysis">>,
      <<"Missing cost analysis", "No timeline provided">> }
Contexts ==
    {None} \cup { Some(RejectionContext(1, None, reasons, <<"...">>)) :
                      reasons \in ReasonLists }

\* allocate_iterations(ScopesConfig(scopes), total_budget)
AllocateIterations ==
    /\ UNCHANGED elsewhere
    /\ pc = "idle" /\ call = NoCall
    /\ \E scopes \in ScopesConfigs, total_budget \in Budgets :
           call' = [op |-> "allocate_iterations", scopes |-> scopes,
                    total_budget |-> total_budget,
                    result |-> allocate_iterations(scopes, total_budget)]
    /\ UNCHANGED << singletons, now, env, ops, pc, run_vars >>

\* inject_context_into_prompt(base_prompt, context)
InjectContext ==
    /\ UNCHANGED elsewhere
    /\ pc = "idle" /\ call = NoCall
    /\ \E base_prompt \in BasePrompts, context \in Contexts :
           call' = [op |-> "inject_context_into_prompt", base_prompt |-> base_prompt,
                    context |-> context,
                    result |-> inject_context_into_prompt(base_prompt, context)]
    /\ UNCHANGED << singletons, now, env, ops, pc, run_vars >>

FunctionsNext ==
    \/ AllocateIterations
    \/ InjectContext

\* nothing is running: one function is called on its own
FunctionsInit == Init /\ env.healthy

SpecFunctions == FunctionsInit /\ [][FunctionsNext]_vars

(***************************************************************************)
(* rerun.py: extract_rejection_reasons.  A text is a sequence of            *)
(* characters; a position p in 1..Len(text)+1 stands before text[p], and 0  *)
(* stands for "no match".  Each regular expression is matched as Python's   *)
(* re module matches it: the leftmost match, greedy and lazy quantifiers     *)
(* tried in their order.                                                     *)
(***************************************************************************)
LowerLetters ==
    <<"a", "b", "c", "d", "e", "f", "g", "h", "i", "j", "k", "l", "m",
      "n", "o", "p", "q", "r", "s", "t", "u", "v", "w", "x", "y", "z">>
UpperLetters ==
    <<"A", "B", "C", "D", "E", "F", "G", "H", "I", "J", "K", "L", "M",
      "N", "O", "P", "Q", "R", "S", "T", "U", "V", "W", "X", "Y", "Z">>

\* str.upper() of one character
UpperChar(c) ==
    IF \E k \in 1..Len(LowerLetters) : LowerLetters[k] = c
    THEN UpperLetters[CHOOSE k \in 1..Len(LowerLetters) : LowerLetters[k] = c]
    ELSE c

\* the literal lit stands at position p
LitAt(text, p, lit) ==
    /\ p >= 1
    /\ p + Len(lit) - 1 <= Len(text)
    /\ \A k \in 1..Len(lit) : text[p + k - 1] = lit[k]

\* the same under re.IGNORECASE
LitAtCI(text, p, lit) ==
    /\ p >= 1
    /\ p + Len(lit) - 1 <= Len(text)
    /\ \A k \in 1..Len(lit) : UpperChar(text[p + k - 1]) = UpperChar(lit[k])

\* q, or otherwise when q is 0, which stands for no position
OrElse(q, otherwise) == IF q = 0 THEN otherwise ELSE q

\* q + n, or 0 when q is 0
AddTo(q, n) == IF q = 0 THEN 0 ELSE q + n

LeastOf(positions) ==
    IF positions = {} THEN 0
    ELSE CHOOSE q \in positions : \A r \in positions : q <= r

GreatestOf(positions) ==
    IF positions = {} THEN 0
    ELSE CHOOSE q \in positions : \A r \in positions : q >= r

\* the least (greatest) q in lo..hi with P(q), 0 when there is none
FirstAt(lo, hi, P(_)) == LeastOf({q \in lo..hi : P(q)})

LastAt(lo, hi, P(_)) == GreatestOf({q \in lo..hi : P(q)})

\* \s* taken greedily from p: the position after the run of whitespace
SkipWs(text, p) ==
    OrElse(FirstAt(p, Len(text), LAMBDA r : ~IsSpace(text[r])),
           Max(p, Len(text) + 1))

\* $ without re.MULTILINE: the end of the text, or before its final newline
AtEnd(text, p) ==
    \/ p = Len(text) + 1
    \/ p = Len(text) /\ text[p] = "\n"

\* $ and ^ with re.MULTILINE
AtLineEnd(text, p) == p = Len(text) + 1 \/ (p <= Len(text) /\ text[p] = "\n")
AtLineStart(text, p) == p = 1 \/ (p > 1 /\ p - 1 <= Len(text) /\ text[p - 1] = "\n")

\* content.upper() contains lit
ContainsCI(text, lit) == \E p \in 1..Len(text) : LitAtCI(text, p, lit)
Contains(text, lit) == \E p \in 1..Len(text) : LitAt(text, p, lit)

\* (.+?)(?=\n##|$) and .*?(?=\n##|$) from position g with at least least
\* characters: the position after the lazy group
UntilHeading(text, g, least) ==
    FirstAt(g + least, Len(text) + 1,
            LAMBDA e : LitAt(text, e, <<"\n", "#", "#">>) \/ AtEnd(text, e))

\* .+?\n\n(.+?) from position s: the start of the group, 0 when it fails
SectionBody(text, s) ==
    AddTo(FirstAt(s + 1, Len(text) - 2, LAMBDA r : LitAt(text, r, <<"\n", "\n">>)), 2)

\* the group after the blank line at q, 0 when q is 0
SectionBodyAfter(text, q) == IF q = 0 THEN 0 ELSE SectionBody(text, q + 2)

\* \s*\n\n.+?\n\n(.+?) from position r: the start of the group, 0 when it fails
SectionRest(text, r) ==
    SectionBodyAfter(text,
        LastAt(r, SkipWs(text, r),
               LAMBDA k : LitAt(text, k, <<"\n", "\n">>) /\ SectionBody(text, k + 2) # 0))

\* a word and its optional plural "s" at position a, then the rest
SectionWord(text, a, word) ==
    IF ~LitAtCI(text, a, word) THEN 0
    ELSE OrElse(IF LitAtCI(text, a + Len(word), <<"s">>)
                THEN SectionRest(text, a + Len(word) + 1)
                ELSE 0,
                SectionRest(text, a + Len(word)))

\* (?:prefix\s+)?words?... from position a, after the ## and its whitespace
SectionFrom(text, a, prefix, word) ==
    OrElse(IF /\ prefix # <<>>
              /\ LitAtCI(text, a, prefix)
              /\ a + Len(prefix) <= Len(text) /\ IsSpace(text[a + Len(prefix)])
           THEN SectionWord(text, SkipWs(text, a + Len(prefix)), word)
           ELSE 0,
           SectionWord(text, a, word))

\* ##\s*(?:prefix\s+)?words?\s*\n\n.+?\n\n(.+?) at position i: the start of the
\* group, 0 when there is no match at i; prefix = <<>> for no optional word
SectionAt(text, i, prefix, word) ==
    IF ~LitAt(text, i, <<"#", "#">>) THEN 0
    ELSE SectionFrom(text, SkipWs(text, i + 2), prefix, word)

\* the group that starts at g
SectionGroup(text, g) == Some(SubSeq(text, g, UntilHeading(text, g, 1) - 1))

\* the group of the match at i, None when i is 0
SectionFound(text, i, prefix, word) ==
    IF i = 0 THEN None ELSE SectionGroup(text, SectionAt(text, i, prefix, word))

\* re.search(pattern, contrarian_content): the group of the leftmost match
SectionSearch(text, prefix, word) ==
    SectionFound(text,
                 FirstAt(1, Len(text), LAMBDA p : SectionAt(text, p, prefix, word) # 0),
                 prefix, word)

\* section_patterns, as optional word and word
section_patterns ==
    << <<<<"C", "r", "i", "t", "i", "c", "a", "l">>, <<"I", "s", "s", "u", "e">>>>,
       <<<<"R", "e", "j", "e", "c", "t", "i", "o", "n">>, <<"R", "e", "a", "s", "o", "n">>>>,
       <<<<>>, <<"C", "o", "n", "c", "e", "r", "n">>>> >>

VerdictKeyword == <<"V", "E", "R", "D", "I", "C", "T", ":">>
Rejected == <<"R", "E", "J", "E", "C", "T", "E", "D">>

\* VERDICT:\s* at position p: the position after it
VerdictAfter(text, p) == SkipWs(text, p + Len(VerdictKeyword))

\* VERDICT:\s*REJECTED at position p
VerdictStarts(text, p) ==
    LitAtCI(text, p, VerdictKeyword) /\ LitAtCI(text, VerdictAfter(text, p), Rejected)

\* group(0) of the match at i, None when i is 0
VerdictGroup(text, i) ==
    IF i = 0 THEN None
    ELSE Some(SubSeq(text, i,
                     UntilHeading(text, VerdictAfter(text, i) + Len(Rejected), 0) - 1))

\* re.search(r'VERDICT:\s*REJECTED.*?(?=\n##|$)', ...): group(0), None without match
verdict_match(text) ==
    VerdictGroup(text, FirstAt(1, Len(text), LAMBDA p : VerdictStarts(text, p)))

\* the text of a match, or otherwise without one
OrText(found, otherwise) == IF found # None THEN Val(found) ELSE otherwise

\* strategy 1 and its fallback: the text the reasons are looked for in
section_content(text) ==
    OrText(SectionSearch(text, section_patterns[1][1], section_patterns[1][2]),
    OrText(SectionSearch(text, section_patterns[2][1], section_patterns[2][2]),
    OrText(SectionSearch(text, section_patterns[3][1], section_patterns[3][2]),
    OrText(verdict_match(text), text))))

\* str.strip()
StripWs(s) ==
    SubSeq(s, OrElse(FirstAt(1, Len(s), LAMBDA k : ~IsSpace(s[k])), 1),
           LastAt(1, Len(s), LAMBDA k : ~IsSpace(s[k])))

\* str.split(sep)
RECURSIVE Split(_, _)
\* the split of s whose first separator stands at i
SplitAt(s, sep, i) ==
    IF i = 0 THEN <<s>>
    ELSE <<SubSeq(s, 1, i - 1)>> \o Split(SubSeq(s, i + Len(sep), Len(s)), sep)

Split(s, sep) == SplitAt(s, sep, FirstAt(1, Len(s), LAMBDA p : LitAt(s, p, sep)))

\* the closing delimiter at c closes a group that began at from on one line
ClosedOnLine(s, from, c) ==
    IF c # 0 /\ \A k \in from..(c - 1) : s[k] # "\n" THEN c ELSE 0

\* re.sub of delim(.+?)delim by \1: where the leftmost match from position
\* from starts and where its closing delimiter stands
DelimClose(s, p, delim) ==
    IF ~LitAt(s, p, delim) THEN 0
    ELSE ClosedOnLine(s, p + Len(delim),
                      FirstAt(p + Len(delim) + 1, Len(s), LAMBDA q : LitAt(s, q, delim)))

RECURSIVE SubDelim(_, _)
\* the substitution whose first match opens at p and closes at c
SubDelimAt(s, delim, p, c) ==
    SubSeq(s, 1, p - 1) \o SubSeq(s, p + Len(delim), c - 1)
        \o SubDelim(SubSeq(s, c + Len(delim), Len(s)), delim)

SubDelimFrom(s, delim, p) ==
    IF p = 0 THEN s ELSE SubDelimAt(s, delim, p, DelimClose(s, p, delim))

SubDelim(s, delim) ==
    SubDelimFrom(s, delim, FirstAt(1, Len(s), LAMBDA q : DelimClose(s, q, delim) # 0))

Bold == <<"*", "*">>
Italic == <<"*">>
\* the backquote character, written as a word
Backquote == "backquote"
Code == <<Backquote>>

\* the dot after the digits that end before d
DotAfter(text, a, d) == IF d > a /\ text[d] = "." THEN d + 1 ELSE 0

\* \d+\. at position a: the position after the dot, 0 when it fails
DigitsDot(text, a) ==
    DotAfter(text, a, FirstAt(a, Len(text), LAMBDA k : text[k] \notin Digits))

\* ^\s*\d+\. at position p: the position after the dot, 0 when it fails
NumberedHead(text, p) ==
    IF ~AtLineStart(text, p) THEN 0 ELSE DigitsDot(text, SkipWs(text, p))

\* \s*(.+?) with re.DOTALL from position r: where the group starts, the
\* whitespace giving back its last character when nothing else is left
AfterWs(text, r) ==
    IF r > Len(text) THEN 0 ELSE Min(SkipWs(text, r), Len(text))

\* (?=\n\d+\.|\n\n|$) with re.MULTILINE at position e
NumberedStop(text, e) ==
    \/ LitAt(text, e, <<"\n">>) /\ DigitsDot(text, e + 1) # 0
    \/ LitAt(text, e, <<"\n", "\n">>)
    \/ AtLineEnd(text, e)

\* the lazy group from g: the position after it
NumberedEnd(text, g) ==
    FirstAt(g + 1, Len(text) + 1, LAMBDA e : NumberedStop(text, e))

\* -\s*(.+?) at position y
DashAt(text, y) ==
    IF y <= Len(text) /\ text[y] = "-" THEN AfterWs(text, y + 1) ELSE 0

\* \s*-\s*(.+?) from position x: where the description starts, 0 when it fails
DescriptionStart(text, x) == DashAt(text, SkipWs(text, x))

\* the last group of a match, from g to e, and the end of the match
GroupTo(text, g, e) == << SubSeq(text, g, e - 1), e >>

\* the title from t to the closing ** at c, and the description from g
BoldMatch(text, t, c, g) == << SubSeq(text, t, c - 1) >> \o GroupTo(text, g, NumberedEnd(text, g))

BoldClose(text, t, c) ==
    IF c = 0 THEN <<>>
    ELSE BoldMatch(text, t, c, DescriptionStart(text, c + Len(Bold)))

\* the title starts at t, after the opening **
BoldTitle(text, t) ==
    IF ~LitAt(text, t - Len(Bold), Bold) THEN <<>>
    ELSE BoldClose(text, t,
                   FirstAt(t + 1, Len(text),
                           LAMBDA q : LitAt(text, q, Bold)
                                          /\ DescriptionStart(text, q + Len(Bold)) # 0))

BoldFromHead(text, h) ==
    IF h = 0 THEN <<>> ELSE BoldTitle(text, SkipWs(text, h) + Len(Bold))

\* numbered_bold_pattern at position p: the title, the description and the
\* end of the match, <<>> when there is no match at p
NumberedBoldAt(text, p) == BoldFromHead(text, NumberedHead(text, p))

SimpleGroup(text, g) ==
    IF g = 0 THEN <<>> ELSE GroupTo(text, g, NumberedEnd(text, g))

SimpleFromHead(text, h) ==
    IF h = 0 THEN <<>> ELSE SimpleGroup(text, AfterWs(text, h))

\* simple_numbered_pattern at position p: the group and the end of the match
SimpleNumberedAt(text, p) == SimpleFromHead(text, NumberedHead(text, p))

BulletGroup(text, g) ==
    IF g = 0 THEN <<>>
    ELSE GroupTo(text, g, FirstAt(g + 1, Len(text) + 1, LAMBDA k : AtLineEnd(text, k)))

\* the bullet at a, then whitespace and the group, which stays on the line
BulletMark(text, a) ==
    IF a > Len(text) \/ text[a] \notin {"-", "*"} THEN <<>>
    ELSE BulletGroup(text, LastAt(a + 1, Min(SkipWs(text, a + 1), Len(text)),
                                  LAMBDA k : text[k] # "\n"))

\* bullet_pattern at position p (without re.DOTALL the group stays on a line)
BulletAt(text, p) ==
    IF ~AtLineStart(text, p) THEN <<>> ELSE BulletMark(text, SkipWs(text, p))

\* the three patterns matched with re.finditer
MatchAt(pattern, text, p) ==
    CASE pattern = "numbered_bold_pattern" -> NumberedBoldAt(text, p)
      [] pattern = "simple_numbered_pattern" -> SimpleNumberedAt(text, p)
      [] pattern = "bullet_pattern" -> BulletAt(text, p)

\* re.finditer: the matches of a pattern from position from on, each a tuple
\* whose last element is the end of the match
RECURSIVE FindIter(_, _, _)
FindNext(pattern, text, hit) == <<hit>> \o FindIter(pattern, text, hit[Len(hit)])

FindFrom(pattern, text, p) ==
    IF p = 0 THEN <<>> ELSE FindNext(pattern, text, MatchAt(pattern, text, p))

FindIter(pattern, text, from) ==
    FindFrom(pattern, text,
             FirstAt(from, Len(text) + 1, LAMBDA q : MatchAt(pattern, text, q) # <<>>))

TitleReasons(hits) == [k \in 1..Len(hits) |-> StripWs(hits[k][1])]

\* pattern 1 keeping the titles only
NumberedBoldReasons_titles(section) ==
    TitleReasons(FindIter("numbered_bold_pattern", section, 1))

\* title - description of every match
BoldReasons(hits) ==
    [k \in 1..Len(hits) |->
         StripWs(hits[k][1]) \o <<" ", "-", " ">> \o StripWs(hits[k][2])]

\* pattern 1: numbered items with a bold title and a description
NumberedBoldReasons(section) ==
    BoldReasons(FindIter("numbered_bold_pattern", section, 1))

LongerThan(s, n) == Len(s) > n

SimpleCleaned(hits) ==
    [k \in 1..Len(hits) |->
         StripWs(SubDelim(SubDelim(StripWs(hits[k][1]), Bold), Italic))]

\* pattern 2: simple numbered items
SimpleNumberedReasons(section) ==
    SelectSeq(SimpleCleaned(FindIter("simple_numbered_pattern", section, 1)),
              LAMBDA reason : LongerThan(reason, 10))

StrippedAll(items) == [k \in 1..Len(items) |-> StripWs(items[k])]

FirstGroups(hits) == [k \in 1..Len(hits) |-> hits[k][1]]

\* pattern 3: bullet points
BulletReasons(section) ==
    SelectSeq(StrippedAll(FirstGroups(FindIter("bullet_pattern", section, 1))),
              LAMBDA reason : LongerThan(reason, 10))

\* str.lstrip of the characters - and * (the third character of the set of
\* the source, a bullet, is in no text)
LStripBullets(s) ==
    SubSeq(s, OrElse(FirstAt(1, Len(s), LAMBDA k : s[k] \notin {"-", "*"}), Len(s) + 1),
           Len(s))

ReasonWords ==
    {<<"R", "e", "a", "s", "o", "n">>, <<"C", "o", "n", "c", "e", "r", "n">>, <<"I", "s", "s", "u", "e">>}

\* s?: after the word w at i: the position after the colon, 0 without one
ColonAfter(text, i, w) ==
    IF LitAtCI(text, i + Len(w), <<"s", ":">>) THEN i + Len(w) + 2
    ELSE IF LitAtCI(text, i + Len(w), <<":">>) THEN i + Len(w) + 1
    ELSE 0

\* \s*\n(.+?) from position c, after the colon: the start of the group
HeadNewline(text, c) ==
    AddTo(LastAt(c, Min(SkipWs(text, c), Len(text) - 1), LAMBDA q : text[q] = "\n"), 1)

HeadOf(text, i, ws) ==
    IF ws = {} THEN 0
    ELSE HeadNewline(text, ColonAfter(text, i, CHOOSE w \in ws : TRUE))

\* (?:Reasons?|Concerns?|Issues?):\s*\n(.+?) at position i: the start of the
\* group, 0 when there is no match at i
ReasonsHeadAt(text, i) ==
    HeadOf(text, i, { w \in ReasonWords : LitAtCI(text, i, w) /\ ColonAfter(text, i, w) # 0 })

\* (?=\n##|\n\*\*|$) after the group that starts at g
ReasonsEnd(section, g) ==
    FirstAt(g + 1, Len(section) + 1,
            LAMBDA q : \/ LitAt(section, q, <<"\n", "#", "#">>)
                       \/ LitAt(section, q, <<"\n", "*", "*">>)
                       \/ AtEnd(section, q))

CleanedLines(lines) ==
    [k \in 1..Len(lines) |-> StripWs(LStripBullets(StripWs(lines[k])))]

\* the lines of the group that starts at g
ReasonLines(section, g) ==
    SelectSeq(CleanedLines(Split(SubSeq(section, g, ReasonsEnd(section, g) - 1), <<"\n">>)),
              LAMBDA line : LongerThan(line, 10))

ReasonsFrom(section, i) ==
    IF i = 0 THEN <<>> ELSE ReasonLines(section, ReasonsHeadAt(section, i))

\* pattern 4: the lines after "Reasons:"
ReasonsSectionReasons(section) ==
    ReasonsFrom(section,
                FirstAt(1, Len(section), LAMBDA p : ReasonsHeadAt(section, p) # 0))

\* paragraphs[:3]
FirstThree(paragraphs) == SubSeq(paragraphs, 1, Min(3, Len(paragraphs)))

\* pattern 5: the first three paragraphs
ParagraphReasons(section) ==
    SelectSeq(FirstThree(SelectSeq(StrippedAll(Split(section, <<"\n", "\n">>)),
                                   LAMBDA para : para # <<>>)),
              LAMBDA para : /\ ~ContainsCI(para, VerdictKeyword)
                            /\ LongerThan(para, 20)
                            /\ para[1] # "#")

\* the first of the five patterns that yields a reason
FirstNonEmpty(a, b, c, d, e) ==
    IF a # <<>> THEN a ELSE IF b # <<>> THEN b ELSE IF c # <<>> THEN c
    ELSE IF d # <<>> THEN d ELSE e

discovered_reasons(section) ==
    FirstNonEmpty(NumberedBoldReasons(section), SimpleNumberedReasons(section),
                  BulletReasons(section), ReasonsSectionReasons(section),
                  ParagraphReasons(section))

\* one reason with its markdown removed
CleanReason(reason) ==
    StripWs(SubDelim(SubDelim(SubDelim(reason, Bold), Italic), Code))

MIN_REASON_LENGTH == 15
MAX_REASONS == 5

\* a reason survives the clean-up when it is longer than 15 characters
Survives(reason) == LongerThan(reason, MIN_REASON_LENGTH)

\* the list returned whole
Truncated_all(cleaned_reasons) == cleaned_reasons

\* cleaned_reasons[:5]
Truncated(cleaned_reasons) ==
    SubSeq(cleaned_reasons, 1, Min(MAX_REASONS, Len(cleaned_reasons)))

CleanedAll(reasons) == [k \in 1..Len(reasons) |-> CleanReason(reasons[k])]

extract_rejection_reasons(contrarian_content) ==
    IF ~ContainsCI(contrarian_content, Rejected) THEN <<>>
    ELSE Truncated(SelectSeq(CleanedAll(discovered_reasons(section_content(contrarian_content))),
                             Survives))

\* the texts tried: a verdict line, a numbered list and, for some, a section
VerdictLine == <<"V", "E", "R", "D", "I", "C", "T", ":", " ", "R", "E", "J", "E", "C", "T", "E", "D">>
Titles == { <<"A">>, <<"M", "i", "s", "s", "i", "n", "g", " ", "d", "a", "t", "a">>, <<"M", "i", "s", "s", "i", "n", "g", " ", "*", "x", "*", " ", "d", "a", "t", "a">> }
Descriptions ==
    { <<"b">>, <<"n", "o", " ", "m", "a", "r", "k", "e", "t", " ", "v", "a", "l", "i", "d", "a", "t", "i", "o", "n">>,
      <<"u", "s", "e", "s", " ">> \o <<Backquote>> \o <<"f", "o", "o">> \o <<Backquote>> \o <<" ", "i", "n", " ", "p", "a", "t", "h">> }
PlainItems == { <<"R", "e", "a", "s", "o", "n", " ", "o", "n", "e">>, <<"M", "i", "s", "s", "i", "n", "g", " ", "m", "a", "r", "k", "e", "t", " ", "v", "a", "l", "i", "d", "a", "t", "i", "o", "n", " ", "d", "a", "t", "a">> }
FurtherItems ==
    { <<"*", "*", "O", "t", "h", "e", "r", " ", "t", "h", "i", "n", "g", "*", "*", " ", "-", " ", "a", "n", "o", "t", "h", "e", "r", " ", "l", "o", "n", "g", " ", "d", "e", "s", "c", "r", "i", "p", "t", "i", "o", "n">>,
      <<"U", "n", "c", "l", "e", "a", "r", " ", "t", "a", "r", "g", "e", "t", " ", "a", "u", "d", "i", "e", "n", "c", "e", " ", "d", "e", "f", "i", "n", "i", "t", "i", "o", "n">>,
      <<"R", "e", "a", "s", "o", "n", " ", "t", "w", "o">> }
IssuesSection ==
    <<"\n", "\n", "#", "#", " ", "I", "s", "s", "u", "e", "s", "\n", "\n", "T", "h", "e", " ", "l", "i", "s", "t", ":", "\n", "\n", "1", ".", " ", "*", "*", "A", "n", "o", "t", "h", "e", "r", " ", "t", "i", "t", "l", "e", "*", "*", " ", "-", " ", "a", "n", "o", "t", "h", "e", "r", " ", "d", "e", "s", "c", "r", "i", "p", "t", "i", "o", "n">>
BulletText ==
    <<"V", "E", "R", "D", "I", "C", "T", ":", " ", "R", "E", "J", "E", "C", "T", "E", "D", "\n", "\n", "K", "e", "y", " ", "c", "o", "n", "c", "e", "r", "n", "s", ":", "\n", "\n", "-", " ", "A", "r", "c", "h", "i", "t", "e", "c", "t", "u", "r", "e", " ", "i", "s", " ", "t", "o", "o", " ", "c", "o", "m", "p", "l", "e", "x", " ", "f", "o", "r", " ", "M", "V", "P", "\n", "-", " ", "M", "i", "s", "s", "i", "n", "g", " ", "e", "r", "r", "o", "r", " ", "h", "a", "n", "d", "l", "i", "n", "g", " ", "s", "t", "r", "a", "t", "e", "g", "y", "\n", "-", " ", "N", "o", " ", "m", "o", "n", "i", "t", "o", "r", "i", "n", "g", " ", "p", "l", "a", "n", " ", "i", "n", "c", "l", "u", "d", "e", "d", "\n">>
ReasonsText ==
    <<"V", "E", "R", "D", "I", "C", "T", ":", " ", "R", "E", "J", "E", "C", "T", "E", "D", "\n", "\n", "R", "e", "a", "s", "o", "n", "s", ":", "\n", "M", "i", "s", "s", "i", "n", "g", " ", "u", "s", "e", "r", " ", "r", "e", "s", "e", "a", "r", "c", "h", "\n", "N", "o", " ", "A", "/", "B", " ", "t", "e", "s", "t", "i", "n", "g", " ", "p", "l", "a", "n", "\n", "U", "n", "c", "l", "e", "a", "r", " ", "s", "u", "c", "c", "e", "s", "s", " ", "m", "e", "t", "r", "i", "c", "s", "\n">>
ParagraphText ==
    <<"V", "E", "R", "D", "I", "C", "T", ":", " ", "R", "E", "J", "E", "C", "T", "E", "D", "\n", "\n", "T", "h", "e", " ", "p", "r", "o", "p", "o", "s", "e", "d", " ", "a", "p", "p", "r", "o", "a", "c", "h", " ", "h", "a", "s", " ", "s", "e", "v", "e", "r", "a", "l", " ", "c", "r", "i", "t", "i", "c", "a", "l", " ", "f", "l", "a", "w", "s", ".", "\n", "\n", "F", "i", "r", "s", "t", ",", " ", "t", "h", "e", "r", "e", " ", "i", "s", " ", "n", "o", " ", "m", "a", "r", "k", "e", "t", " ", "v", "a", "l", "i", "d", "a", "t", "i", "o", "n", " ", "a", "t", " ", "a", "l", "l", ".", "\n">>
ApprovedText == <<"V", "E", "R", "D", "I", "C", "T", ":", " ", "A", "P", "P", "R", "O", "V", "E", "D", "\n", "\n", "T", "h", "e", " ", "p", "r", "o", "p", "o", "s", "a", "l", " ", "l", "o", "o", "k", "s", " ", "s", "o", "l", "i", "d", ".", "\n">>

\* the longest numbered list tried
MaxItems == 7

ItemNumbers == <<"1", "2", "3", "4", "5", "6", "7", "8", "9">>

\* "k. item"
NumberedItem(k, item) == <<ItemNumbers[k], ".", " ">> \o item

\* the items k..n of a list, all with the same text, each on a line of its own
RECURSIVE FurtherLines(_, _, _)
FurtherLines(k, n, item) ==
    IF k > n THEN <<>>
    ELSE <<"\n">> \o NumberedItem(k, item) \o FurtherLines(k + 1, n, item)

BoldItem(title, description) ==
    <<"*", "*">> \o title \o <<"*", "*", " ", "-", " ">> \o description

\* a contrarian response with a list of n items, and what it was built from
ListText(gap, first, title, description, n, further, suffix) ==
    [text |-> VerdictLine \o gap \o NumberedItem(1, first)
                  \o FurtherLines(2, n, further) \o suffix,
     title |-> title, description |-> description,
     sectioned |-> suffix # <<>>]

PlainText(text) ==
    [text |-> text, title |-> None, description |-> None, sectioned |-> FALSE]

Contrarians ==
    { ListText(gap, BoldItem(title, description), Some(title), Some(description),
               n, further, suffix) :
          gap \in {<<"\n">>, <<"\n", "\n">>}, title \in Titles,
          description \in Descriptions, n \in 1..MaxItems,
          further \in FurtherItems, suffix \in {<<>>, IssuesSection} }
    \cup { ListText(<<"\n">>, first, None, None, n, further, <<>>) :
               first \in PlainItems, n \in 1..MaxItems, further \in FurtherItems }
    \cup { PlainText(text) :
               text \in {BulletText, ReasonsText, ParagraphText, ApprovedText, <<>>} }

\* extract_rejection_reasons(contrarian_content); reasons is the list before
\* the final clean-up
ExtractReasons ==
    /\ UNCHANGED elsewhere
    /\ pc = "idle" /\ call = NoCall
    /\ \E contrarian \in Contrarians :
           call' = [op |-> "extract_rejection_reasons",
                    contrarian_content |-> contrarian.text,
                    title |-> contrarian.title,
                    description |-> contrarian.description,
                    sectioned |-> contrarian.sectioned,
                    reasons |-> IF ContainsCI(contrarian.text, <<"R", "E", "J", "E", "C", "T", "E", "D">>)
                                THEN discovered_reasons(section_content(contrarian.text))
                                ELSE <<>>,
                    result |-> extract_rejection_reasons(contrarian.text)]
    /\ UNCHANGED << singletons, now, env, ops, pc, run_vars >>

(***************************************************************************)
(* telemetry.py: configured_model_candidates.  The value of an environment *)
(* variable is None when unset, else a sequence of tokens: model names,     *)
(* "," and " ".  An entry of a list is the sequence of tokens between two   *)
(* commas, stripped.                                                        *)
(***************************************************************************)
_parse_model_list(raw) ==
    IF raw = None \/ Val(raw) = <<>> THEN <<>>
    ELSE LET parts == Split(Val(raw), <<",">>)
             segments == [k \in 1..Len(parts) |-> StripWs(parts[k])]
         IN  SelectSeq(segments, LAMBDA part : part # <<>>)

InList(entry, ordered) == \E k \in 1..Len(ordered) : ordered[k] = entry

OrderedAppend_always(ordered, entry) ==
    IF entry # <<>> THEN Append(ordered, entry) ELSE ordered

\* if entry and entry not in ordered: ordered.append(entry)
OrderedAppend(ordered, entry) ==
    IF entry # <<>> /\ ~InList(entry, ordered) THEN Append(ordered, entry)
    ELSE ordered

RECURSIVE OrderedLoop(_, _)
OrderedLoop(entries, ordered) ==
    IF entries = <<>> THEN ordered
    ELSE OrderedLoop(Tail(entries), OrderedAppend(ordered, entries[1]))

\* os.environ.get(name, default)
EnvironGet(value, default) == IF value = None THEN default ELSE Val(value)

configured_model_candidates(environ) ==
    LET priority == _parse_model_list(environ.STUDIO_MODEL_PRIORITY)
        candidates == IF priority # <<>> THEN priority
                      ELSE _parse_model_list(environ.STUDIO_MODEL_CANDIDATES)
        primary == EnvironGet(environ.STUDIO_MODEL, <<>>)
        fallback == _parse_model_list(environ.STUDIO_MODEL_FALLBACK)
        local_model == EnvironGet(environ.STUDIO_OLLAMA_MODEL, <<Ollama>>)
        ordered == OrderedLoop(candidates
                                   \o (IF primary # <<>> THEN <<primary>> ELSE <<>>)
                                   \o fallback, <<>>)
        with_local == IF local_model # <<>> /\ ~InList(local_model, ordered)
                      THEN Append(ordered, local_model) ELSE ordered
    IN  IF with_local # <<>> THEN with_local ELSE << <<Gemini>> >>

GeminiPro == "gemini-2.5-pro"
Mixtral == "groq/mixtral-8x7b"
Llama70 == "groq/llama-3.1-70b"

\* the environments tried
Environs ==
    [STUDIO_MODEL_PRIORITY :
         {None, Some(<<>>), Some(<<" ", ",", " ">>),
          Some(<<GeminiPro, ",", Mixtral>>), Some(<<Mixtral, ",", " ", Ollama, " ">>)},
     STUDIO_MODEL_CANDIDATES :
         {None, Some(<<Mixtral, ",", GeminiPro>>), Some(<<GeminiPro, ",", GeminiPro>>)},
     STUDIO_MODEL :
         {None, Some(<<>>), Some(<<GeminiPro>>), Some(<<" ", GeminiPro>>)},
     STUDIO_MODEL_FALLBACK :
         {None, Some(<<Llama70>>), Some(<<Mixtral, ",", ",", " ", Llama70>>)},
     STUDIO_OLLAMA_MODEL :
         {None, Some(<<>>), Some(<<Ollama>>), Some(<<GeminiPro>>)}]

\* configured_model_candidates() under an environment
ConfiguredCandidates ==
    /\ UNCHANGED elsewhere
    /\ pc = "idle" /\ call = NoCall
    /\ \E environ \in Environs :
           call' = [op |-> "configured_model_candidates", environ |-> environ,
                    result |-> configured_model_candidates(environ)]
    /\ UNCHANGED << singletons, now, env, ops, pc, run_vars >>

(***************************************************************************)
(* rerun.py: find_latest_rejection.  A run directory is a set of files, a   *)
(* file a name and a content, both sequences of characters.                 *)
(***************************************************************************)
\* the characters of the file names, in the order of their code points
CodePoints ==
    <<"-", ".", "0", "1", "2", "3", "4", "5", "6", "7", "8", "9", "_">> \o LowerLetters

CharCode(c) == CHOOSE k \in 1..Len(CodePoints) : CodePoints[k] = c

\* a < b for two names, as Python compares strings
NameLess(a, b) ==
    \E k \in 1..(Len(b)) :
        /\ \A j \in 1..(k - 1) : j <= Len(a) /\ a[j] = b[j]
        /\ k - 1 <= Len(a)
        /\ \/ k = Len(a) + 1
           \/ k <= Len(a) /\ CharCode(a[k]) < CharCode(b[k])

\* sorted(paths, reverse=True)
RECURSIVE SortedReverse(_)
SortedReverse(files) ==
    IF files = {} THEN <<>>
    ELSE LET top == CHOOSE f \in files :
                        \A g \in files : g = f \/ NameLess(g.name, f.name)
         IN  <<top>> \o SortedReverse(files \ {top})

\* run_dir.glob(prefix + "*.md")
Glob(run_dir, prefix) ==
    { f \in run_dir :
          /\ LitAt(f.name, 1, prefix)
          /\ Len(f.name) >= Len(prefix) + 3
          /\ LitAt(f.name, Len(f.name) - 2, <<".", "m", "d">>) }

\* the pattern of the role, without its "*.md"
PatternPrefix(role) ==
    IF role # None /\ Val(role) # <<>>
    THEN <<"c", "o", "n", "t", "r", "a", "r", "i", "a", "n", "-", "-">> \o Val(role) \o <<"-", "-">>
    ELSE <<"c", "o", "n", "t", "r", "a", "r", "i", "a", "n", "_">>

FirstRejected_approved(contrarian_files) ==
    IF contrarian_files = <<>> THEN None ELSE Some(contrarian_files[1])

\* the loop over contrarian_files: the first whose content holds the verdict
FirstRejected(contrarian_files) ==
    LET hits == SelectSeq(contrarian_files,
                          LAMBDA f : Contains(f.content, <<"V", "E", "R", "D", "I", "C", "T", ":", " ", "R", "E", "J", "E", "C", "T", "E", "D">>))
    IN  IF hits = <<>> THEN None ELSE Some(hits[1])

\* run_dir is None for a directory that does not exist
find_latest_rejection(run_dir, role) ==
    IF run_dir = None THEN None
    ELSE FirstRejected(SortedReverse(Glob(Val(run_dir), PatternPrefix(role))))

\* str(n) as characters
RECURSIVE Decimal(_)
Decimal(n) ==
    LET digit == <<"0", "1", "2", "3", "4", "5", "6", "7", "8", "9">>[(n % 10) + 1]
    IN  IF n < 10 THEN <<digit>> ELSE Decimal(n \div 10) \o <<digit>>

\* the contrarian file of an iteration; iteration and role say what the name
\* was built from
ContrarianFile(iteration_number, role, content) ==
    [name |-> IF role = None
              THEN <<"c", "o", "n", "t", "r", "a", "r", "i", "a", "n", "_">> \o Decimal(iteration_number) \o <<".", "m", "d">>
              ELSE <<"c", "o", "n", "t", "r", "a", "r", "i", "a", "n", "-", "-">> \o Val(role) \o <<"-", "-">>
                       \o (IF iteration_number < 10 THEN <<"0">> ELSE <<>>)
                       \o Decimal(iteration_number) \o <<".", "m", "d">>,
     iteration |-> iteration_number, role |-> role, content |-> content]

\* the iterations whose files are tried
FileIterations == {1, 2, 9, 10}
Product == <<"p", "r", "o", "d", "u", "c", "t">>
FileContents == { <<"V", "E", "R", "D", "I", "C", "T", ":", " ", "R", "E", "J", "E", "C", "T", "E", "D", "\n", "r", "e", "j", "e", "c", "t", "i", "o", "n">>, <<"V", "E", "R", "D", "I", "C", "T", ":", " ", "A", "P", "P", "R", "O", "V", "E", "D">> }

\* the run directories tried: each iteration without a file or with one, and
\* at most one file of a role
RunDirs ==
    {None} \cup
    { Some({ ContrarianFile(i, None, written[i]) : i \in DOMAIN written }
               \cup role_files) :
          written \in UNION { [its -> FileContents] : its \in SUBSET FileIterations },
          role_files \in { {} } \cup
              { {ContrarianFile(i, Some(Product), content)} :
                    i \in {2, 10}, content \in FileContents } }

\* find_latest_rejection(run_dir, role)
FindLatestRejection ==
    /\ UNCHANGED elsewhere
    /\ pc = "idle" /\ call = NoCall
    /\ \E run_dir \in RunDirs, role \in {None, Some(Product)} :
           call' = [op |-> "find_latest_rejection", run_dir |-> run_dir,
                    role |-> role,
                    result |-> find_latest_rejection(run_dir, role)]
    /\ UNCHANGED << singletons, now, env, ops, pc, run_vars >>

ParsingNext ==
    \/ ExtractReasons
    \/ ConfiguredCandidates
    \/ FindLatestRejection

SpecParsing == FunctionsInit /\ [][ParsingNext]_vars

(***************************************************************************)
(* run_phase: prepare_run and finalize_run                                 *)
(***************************************************************************)
\* str.upper()
UpperStr(s) == [k \in DOMAIN s |-> UpperChar(s[k])]

\* role.replace(" ", "-")
Slug(role) == [k \in DOMAIN role |-> IF role[k] = " " THEN "-" ELSE role[k]]

\* kind--role--NN.md: the int of what stands between the last "--" and the
\* first "." after it, 0 when there are fewer than three parts or no int
parse_iteration_from_filename(filename) ==
    LET parts == Split(filename, <<"-", "-">>)
        iteration_part == Split(parts[Len(parts)], <<".">>)[1]
        parsed == ParseIntStr(iteration_part)
    IN  IF Len(parts) < 3 THEN 0
        ELSE IF parsed = None THEN 0 ELSE Val(parsed)

\* run_dir.glob(kind--slug--*.md)
collect_role_artifacts(run_dir, role, kind) ==
    Glob(run_dir, kind \o <<"-", "-">> \o Slug(role) \o <<"-", "-">>)

Advocate == <<"a", "d", "v", "o", "c", "a", "t", "e">>
Contrarian == <<"c", "o", "n", "t", "r", "a", "r", "i", "a", "n">>
SummaryMd == <<"s", "u", "m", "m", "a", "r", "y", ".", "m", "d">>
IntegratorMd == <<"i", "n", "t", "e", "g", "r", "a", "t", "o", "r", ".", "m", "d">>

\* max(..., default=0) of the iterations parsed from the names
MaxParsed(paths) ==
    IF paths = {} THEN 0
    ELSE LET its == { parse_iteration_from_filename(path.name) : path \in paths }
         IN  CHOOSE m \in its : \A n \in its : m >= n

\* the loop over the invited roles, from role k on
RECURSIVE RoleLoop(_, _, _, _)
RoleLoop(run_dir, invited_roles, k, acc) ==
    IF k > Len(invited_roles) THEN acc
    ELSE LET role == invited_roles[k]
             advocate_files == collect_role_artifacts(run_dir, role, Advocate)
             contrarian_files == collect_role_artifacts(run_dir, role, Contrarian)
             role_iterations == MaxParsed(contrarian_files)
         IN  IF advocate_files = {} \/ contrarian_files = {}
             THEN RoleLoop(run_dir, invited_roles, k + 1,
                           [acc EXCEPT !.missing_roles = Append(@, role)])
             ELSE RoleLoop(run_dir, invited_roles, k + 1,
                           [acc EXCEPT !.completed_roles = Append(@, role),
                                       !.max_iteration =
                                           Max(@, IF role_iterations # 0 THEN role_iterations
                                                  ELSE Cardinality(contrarian_files))])

\* the errors of a phase other than studio, with only the advocate check
OutputErrors_advocates(run_dir) ==
    IF Glob(run_dir, Advocate \o <<"_">>) = {} THEN <<"Missing advocate outputs">> ELSE <<>>

\* the errors of a phase other than studio
OutputErrors(run_dir) ==
    (IF Glob(run_dir, Advocate \o <<"_">>) = {} THEN <<"Missing advocate outputs">> ELSE <<>>)
    \o (IF Glob(run_dir, Contrarian \o <<"_">>) = {} THEN <<"Missing contrarian outputs">> ELSE <<>>)

\* the errors of the studio phase, given what the loop over the roles found
StudioErrors(run_dir, invited_roles, found) ==
    (IF invited_roles = <<>> THEN <<"run.json is missing invited Studio roles">> ELSE <<>>)
    \o (IF found.completed_roles = <<>> THEN <<"No Studio role produced both">> ELSE <<>>)
    \o (IF \E f \in run_dir : f.name = IntegratorMd THEN <<>> ELSE <<"Missing integrator roadmap">>)

\* the end of _validate_artifacts, given what the loop over the roles found
Validation(run_phase, run_dir, summary_path, invited_roles, found) ==
    IF run_phase = "studio"
    THEN [errors |-> StudioErrors(run_dir, invited_roles, found)
                         \o (IF \E f \in run_dir : f.name = summary_path
                             THEN <<>> ELSE <<"Missing summary file">>),
          iterations_value |-> found.max_iteration,
          completed_roles |-> found.completed_roles,
          missing_roles |-> found.missing_roles]
    ELSE [errors |-> OutputErrors(run_dir)
                         \o (IF \E f \in run_dir : f.name = summary_path
                             THEN <<>> ELSE <<"Missing summary file">>),
          iterations_value |-> Cardinality(Glob(run_dir, Advocate \o <<"_">>)),
          completed_roles |-> <<>>,
          missing_roles |-> <<>>]

\* _validate_artifacts(phase, run_dir, summary_path, meta): its errors (it
\* raises FileNotFoundError when there are any) and what it returns otherwise
_validate_artifacts(run_phase, run_dir, summary_path, meta) ==
    Validation(run_phase, run_dir, summary_path, meta.invited,
               RoleLoop(run_dir, meta.invited, 1,
                        [completed_roles |-> <<>>, missing_roles |-> <<>>,
                         max_iteration |-> 0]))

\* _ensure_summary_path(meta, run_dir): meta with its summary path set
_ensure_summary_path(meta) ==
    IF meta.summary_path # <<>> THEN meta
    ELSE [meta EXCEPT !.summary_path = SummaryMd]

\* the row write_index writes for the run
IndexRow(meta) ==
    [status |-> meta.status,
     summary |-> IF meta.summary_path = <<>> THEN "_pending_" ELSE "[summary]"]

\* rebuild_index(): collect_runs reads the run.json of every run directory
rebuild_index(run_json) ==
    Some(IF run_json = None THEN <<>> ELSE <<IndexRow(Val(run_json))>>)

\* the lines _append_run_log appends
LogEntry(meta) ==
    [status |-> meta.status, verdict |-> meta.verdict,
     iterations_run |-> meta.iterations_run, summary_path |-> meta.summary_path]

\* the meta prepare_run writes
PreparedMeta(invited_roles) ==
    [status |-> <<"P", "E", "N", "D", "I", "N", "G">>, summary_path |-> <<>>, verdict |-> <<>>,
     iterations_run |-> None, invited |-> invited_roles,
     completed |-> <<>>, missing |-> <<>>]

\* run_phase.py 580-584: the loaded meta with the status and the summary
\* path set
LoadedMeta(run_json, args) ==
    _ensure_summary_path(
        [run_json EXCEPT
            !.status = UpperStr(args.status),
            !.summary_path = IF args.summary # None /\ Val(args.summary) # <<>>
                             THEN Val(args.summary) ELSE @])

\* run_phase.py 593-604: the meta that is written
FinalMeta(meta, args, valid) ==
    [meta EXCEPT
        !.verdict = IF args.verdict # None /\ Val(args.verdict) # <<>>
                    THEN UpperStr(Val(args.verdict)) ELSE @,
        !.iterations_run = IF args.iterations_run # None
                           THEN args.iterations_run
                           ELSE Some(valid.iterations_value),
        !.completed = valid.completed_roles,
        !.missing = valid.missing_roles]

\* run_phase.py 606-608: write_json, rebuild_index, _append_run_log
Written(root, final) ==
    [root EXCEPT !.run_json = Some(final),
                 !.index = rebuild_index(Some(final)),
                 !.run_log = Append(@, LogEntry(final))]

\* run_phase.py 586-610, given the meta and what _validate_artifacts found
Validated(root, args, meta, valid) ==
    IF valid.errors # <<>>
    THEN [root |-> root, raised |-> Some("FileNotFoundError")]
    ELSE [root |-> Written(root, FinalMeta(meta, args, valid)), raised |-> None]

\* run_phase.py 580-591, given the loaded meta
Loaded(root, args, meta) ==
    Validated(root, args, meta,
              _validate_artifacts(args.phase, root.files, meta.summary_path, meta))

\* finalize_run(args) on the files root: the files afterwards and the
\* exception raised, if any
finalize_run(root, args) ==
    IF root.run_json = None \/ root.run_phase # Some(args.phase)
    THEN [root |-> root, raised |-> Some("FileNotFoundError")]
    ELSE Loaded(root, args, LoadedMeta(Val(root.run_json), args))

\* the most finalize calls that pass validation
MaxFinalizes == 1

Marketing == <<"m", "a", "r", "k", "e", "t", "i", "n", "g">>
Design == <<"d", "e", "s", "i", "g", "n">>
CustomMd == <<"c", "u", "s", "t", "o", "m", ".", "m", "d">>

RunPhases == {"design", "studio"}

\* the roles resolve_role_list can invite; never none
InvitedRoles == {<<Marketing>>, <<Marketing, Design>>}

\* the artifacts the agents of a run of the phase write
Artifacts(run_phase) ==
    IF run_phase = "studio"
    THEN {<<"a", "d", "v", "o", "c", "a", "t", "e", "-", "-", "m", "a", "r", "k", "e", "t", "i", "n", "g", "-", "-", "0", "1", ".", "m", "d">>, <<"c", "o", "n", "t", "r", "a", "r", "i", "a", "n", "-", "-", "m", "a", "r", "k", "e", "t", "i", "n", "g", "-", "-", "0", "2", ".", "m", "d">>,
          IntegratorMd, SummaryMd, CustomMd}
    ELSE {<<"a", "d", "v", "o", "c", "a", "t", "e", "_", "1", ".", "m", "d">>, <<"a", "d", "v", "o", "c", "a", "t", "e", "_", "2", ".", "m", "d">>, <<"c", "o", "n", "t", "r", "a", "r", "i", "a", "n", "_", "1", ".", "m", "d">>,
          SummaryMd, CustomMd}

FinalizeArgs ==
    [phase : RunPhases,
     status : {<<"c", "o", "m", "p", "l", "e", "t", "e", "d">>},
     summary : {None, Some(CustomMd)},
     verdict : {None, Some(<<"a", "p", "p", "r", "o", "v", "e", "d">>)},
     iterations_run : {None, Some(7)}]

\* prepare_run(args): the run directory must not exist yet
PrepareRun ==
    /\ UNCHANGED << singletons, now, env, ops, pc, run_vars, invocations >>
    /\ pc = "idle"
    /\ studio_root.run_phase = None
    /\ \E run_phase \in RunPhases :
         \E invited_roles \in (IF run_phase = "studio" THEN InvitedRoles ELSE {<<>>}) :
           LET meta == PreparedMeta(invited_roles)
           IN  /\ studio_root' = [studio_root EXCEPT
                                     !.run_phase = Some(run_phase),
                                     !.run_json = Some(meta),
                                     !.index = rebuild_index(Some(meta))]
               /\ call' = [op |-> "prepare_run", phase |-> run_phase]

\* an agent writes an artifact of the run
WriteArtifact ==
    /\ UNCHANGED << singletons, now, env, ops, pc, run_vars, invocations >>
    /\ pc = "idle"
    /\ studio_root.run_phase # None
    /\ \E name \in Artifacts(Val(studio_root.run_phase)) :
         /\ [name |-> name] \notin studio_root.files
         /\ studio_root' = [studio_root EXCEPT !.files = @ \cup {[name |-> name]}]
    /\ call' = NoCall

\* an artifact of the run is removed
RemoveArtifact ==
    /\ UNCHANGED << singletons, now, env, ops, pc, run_vars, invocations >>
    /\ pc = "idle"
    /\ \E f \in studio_root.files :
         studio_root' = [studio_root EXCEPT !.files = @ \ {f}]
    /\ call' = NoCall

\* finalize_run(args)
FinalizeRun ==
    /\ UNCHANGED << singletons, now, env, ops, pc, run_vars, invocations >>
    /\ pc = "idle"
    /\ \E args \in FinalizeArgs :
         \E done \in {finalize_run(studio_root, args)} :
             /\ done.raised = None => Len(studio_root.run_log) < MaxFinalizes
             /\ studio_root' = done.root
             /\ call' = [op |-> "finalize_run", args |-> args, raised |-> done.raised]

FinalizeNext ==
    \/ PrepareRun
    \/ WriteArtifact
    \/ RemoveArtifact
    \/ FinalizeRun

SpecFinalize == FunctionsInit /\ [][FinalizeNext]_vars

(***************************************************************************)
(* Two run_iterative_kickoff invocations in threads of one process: the    *)
(* studio phase, whose loop ends after its first record. Each step below   *)
(* is one call on the shared model manager, which its lock makes atomic.   *)
(***************************************************************************)
\* iteration.py 43-53: invocation i is called
InvocationStart(i) ==
    /\ invocations[i].pc = "idle"
    /\ invocations' = [invocations EXCEPT ![i] =
           [pc |-> "factory", model |-> None, model_attempt |-> 0,
            max_model_attempts |-> MaxModelAttempts(model_manager),
            failure |-> None]]
    /\ call' = NoCall
    /\ UNCHANGED << singletons, now, env, ops, pc, run_vars, studio_root >>

\* iteration.py 74: crew_factory() of invocation i, StudioCrew(phase).crew()
InvocationFactory(i) ==
    /\ invocations[i].pc = "factory"
    /\ \E r \in {_select_llm_configuration(model_manager, snapshots, now, env)} :
         /\ model_manager' = r.mm
         /\ invocations' = [invocations EXCEPT
                ![i].pc = IF r.model = None THEN "raised" ELSE "kickoff",
                ![i].model = r.model]
    /\ call' = NoCall
    /\ UNCHANGED << snapshots, now, env, ops, pc, run_vars, studio_root >>

\* iteration.py 76-77, 85-128: crew.kickoff of invocation i returns
InvocationKickoffReturns(i) ==
    /\ invocations[i].pc = "kickoff"
    /\ invocations' = [invocations EXCEPT ![i].pc = "returned"]
    /\ call' = NoCall
    /\ UNCHANGED << singletons, now, env, ops, pc, run_vars, studio_root >>

\* iteration.py 78-83: crew.kickoff of invocation i raises e; failure keeps
\* the model the attempt ran on and the model the handler read
InvocationKickoffRaises(i, e) ==
    /\ invocations[i].pc = "kickoff"
    /\ \E h \in {_handle_model_failure(model_manager, snapshots, now, e)} :
         /\ model_manager' = h.mm
         /\ invocations' = [invocations EXCEPT
                ![i].model_attempt = @ + 1,
                ![i].failure = Some([exc |-> e, handled |-> h.handled,
                                     selected |-> invocations[i].model,
                                     marked |-> current_model(model_manager),
                                     before |-> model_manager,
                                     after |-> h.mm]),
                ![i].pc = IF MayRetry(h.handled, invocations[i].model_attempt + 1,
                                      invocations[i].max_model_attempts)
                             /\ WhileContinues(invocations[i].model_attempt + 1,
                                               invocations[i].max_model_attempts)
                          THEN "factory" ELSE "raised"]
    /\ call' = NoCall
    /\ UNCHANGED << snapshots, now, env, ops, pc, run_vars, studio_root >>

ConcurrentNext ==
    \/ \E i \in Threads : InvocationStart(i)
    \/ \E i \in Threads : InvocationFactory(i)
    \/ \E i \in Threads : InvocationKickoffReturns(i)
    \/ \E i \in Threads, e \in Exceptions : InvocationKickoffRaises(i, e)

SpecConcurrent == Init /\ [][ConcurrentNext]_vars

(***************************************************************************)
(* StudioCrew._select_llm_configuration called on a manager that earlier   *)
(* calls have marked                                                       *)
(***************************************************************************)
\* the environments of the call: with or without the API key, Ollama passing
\* its health check or not
SelectEnvs ==
    { [candidates |-> <<Gemini, Ollama>>, keys |-> keys, healthy |-> healthy] :
          keys \in {{}, {"gemini"}}, healthy \in BOOLEAN }

\* StudioCrew(phase)._select_llm_configuration(): result None stands for the
\* EnvironmentError
CallSelectConfiguration ==
    /\ UNCHANGED elsewhere
    /\ Callable
    /\ \E r \in {_select_llm_configuration(model_manager, snapshots, now, env)} :
         /\ model_manager' = r.mm
         /\ call' = [op |-> "_select_llm_configuration", before |-> model_manager,
                     result |-> r.model, tested |-> r.tested]
    /\ ops' = ops + 1
    /\ UNCHANGED << snapshots, now, env, pc, run_vars >>

SelectNext ==
    \/ \E m \in AllModels, r \in CallRetryAfters :
           CallMarkCooldown(Some(m), r)
    \/ \E m \in AllModels, c \in CallCooldownSeconds :
           CallMarkOverheated(Some(m), c)
    \/ Advance
    \/ CallSelectConfiguration

\* the singletons as the import left them, the monitor holding the snapshots
\* of earlier responses
SelectInit ==
    /\ env \in SelectEnvs
    /\ model_manager = configure_candidates(NewManager, env.candidates)
    /\ snapshots \in SnapshotStates
    /\ now = 0
    /\ ops = 0
    /\ pc = "idle"
    /\ call = NoCall
    /\ studio_root = EmptyRoot
    /\ invocations = [i \in Threads |-> NotCalled]
    /\ phase = "market"
    /\ factory = "scripted"
    /\ iteration_cap = 0
    /\ max_model_attempts = 0
    /\ history = <<>>
    /\ verdict = "UNKNOWN"
    /\ iteration = 0
    /\ iteration_inputs = None
    /\ model_attempt = 0
    /\ crew = NoCrew
    /\ crews_made = 0
    /\ turns = 0
    /\ iter_turns = 0
    /\ start_candidates = 0
    /\ impl_calls = 0
    /\ impl_returned = None
    /\ failure = None
    /\ exc = None
    /\ ret = None

SpecSelect == SelectInit /\ [][SelectNext]_vars

(***************************************************************************)
(* Properties                                                              *)
(***************************************************************************)
\* the records of the debate rounds: the history without IMPLEMENTATION records
DebateRounds(hist) == SelectSeq(hist, LAMBDA rec : rec.verdict # "IMPLEMENTATION")

HasApproved(hist) == \E i \in 1..Len(hist) : hist[i].verdict = "APPROVED"

\* sub occurs in text as a contiguous run of tokens
Embeds(text, sub) ==
    \E i \in 1..(Len(text) - Len(sub) + 1) : SubSeq(text, i, i + Len(sub) - 1) = sub

\* C1: in a non-studio phase with cap N the debate rounds are recorded as
\* 1, 2, ... in order; no agent turn is invoked (no crew is built, no kickoff
\* is in flight) once a round is APPROVED; an APPROVED round is the last debate
\* round; at most N debate rounds are recorded; and the run returns only after
\* an APPROVED round or after round N.
C1_StopsAtApprovalOrCap ==
    (pc # "idle" /\ phase # "studio") =>
        LET rounds == DebateRounds(history)
        IN  /\ Len(rounds) <= iteration_cap
            /\ \A i \in 1..Len(rounds) : rounds[i].iteration = i
            /\ \A i \in 1..Len(rounds) :
                   rounds[i].verdict = "APPROVED" => i = Len(rounds)
            /\ pc \in {"factory", "kickoff"} =>
                   /\ ~HasApproved(history)
                   /\ iteration = Len(rounds) + 1
                   /\ iteration <= iteration_cap
            /\ pc \in {"implementation", "returned"} =>
                   \/ rounds[Len(rounds)].verdict = "APPROVED"
                   \/ Len(rounds) = iteration_cap

\* a run approved in round 2 of 3 has returned
C1_Witness ==
    /\ pc = "returned" /\ phase = "market" /\ iteration_cap = 3
    /\ Len(DebateRounds(history)) = 2
    /\ history[1].verdict = "REJECTED" /\ history[2].verdict = "APPROVED"

\* C2: on every normal return, accepted holds iff the last debate round is
\* APPROVED; limit_reached holds iff the phase is not studio, accepted is false
\* and the history length equals the cap; the flags are never both true, and
\* in a non-studio phase exactly one of them is true.
C2_ReturnFlags ==
    pc = "returned" =>
        LET r == Val(ret)
            rounds == DebateRounds(r.history)
        IN  /\ r.history = history
            /\ r.accepted <=> rounds[Len(rounds)].verdict = "APPROVED"
            /\ r.limit_reached <=>
                   (phase # "studio" /\ ~r.accepted /\ Len(r.history) = iteration_cap)
            /\ ~(r.accepted /\ r.limit_reached)
            /\ phase # "studio" => (r.accepted \/ r.limit_reached)

\* a run that used up its two rounds without approval
C2_Witness ==
    /\ pc = "returned" /\ phase = "market" /\ iteration_cap = 2
    /\ Val(ret).limit_reached /\ ~Val(ret).accepted
    /\ Val(ret).iterations_run = 2

\* C3: the implementation turn is invoked at most once, only after the debate
\* loop ended APPROVED in a non-studio phase (never after cap exhaustion, never
\* in studio). If it returned non-empty text, exactly one IMPLEMENTATION record
\* directly follows the APPROVED record and the returned result and verdict are
\* that record's, accepted still true; if it returned empty text or None, the
\* history holds the debate rounds only and the returned verdict is APPROVED.
C3_ImplementationTurn ==
    LET rounds == DebateRounds(history)
    IN  /\ impl_calls <= 1
        /\ impl_calls = 1 =>
               /\ phase # "studio"
               /\ rounds # <<>> /\ rounds[Len(rounds)].verdict = "APPROVED"
        /\ pc = "implementation" => impl_calls = 1
        /\ (pc = "returned" /\ ~Val(ret).accepted) => impl_calls = 0
        /\ impl_returned # None => (pc = "returned" /\ impl_calls = 1)
        /\ (pc = "returned" /\ Val(ret).accepted) => impl_returned # None
        /\ impl_returned # None =>
               LET out == Val(impl_returned)
                   r == Val(ret)
                   n == Len(rounds)
               IN  IF out # None /\ Val(out) # <<>>
                   THEN /\ Len(r.history) = n + 1
                        /\ SubSeq(r.history, 1, n) = rounds
                        /\ r.history[n].verdict = "APPROVED"
                        /\ r.history[n + 1].verdict = "IMPLEMENTATION"
                        /\ r.history[n + 1].result = Val(out)
                        /\ r.result = Val(out)
                        /\ r.verdict = "IMPLEMENTATION"
                        /\ r.accepted
                   ELSE /\ r.history = rounds
                        /\ r.verdict = "APPROVED"
                        /\ r.accepted

\* approval in round 2, then an implementation turn that returned text
C3_Witness ==
    /\ pc = "returned"
    /\ impl_returned = Some(Some(TImpl))
    /\ Len(history) = 3
    /\ history[3].verdict = "IMPLEMENTATION"

\* C4: in the studio phase exactly one debate round runs whatever the cap and
\* the text: the single record has verdict UNKNOWN, accepted and limit_reached
\* are false and the implementation turn is never invoked.
C4_StudioSingleRound ==
    (pc # "idle" /\ phase = "studio") =>
        /\ impl_calls = 0
        /\ pc # "implementation"
        /\ iteration = 1
        /\ pc \in {"factory", "kickoff", "raised"} => history = <<>>
        /\ pc = "returned" =>
               /\ Len(history) = 1
               /\ history[1].verdict = "UNKNOWN"
               /\ Val(ret).history = history
               /\ Val(ret).iterations_run = 1
               /\ Val(ret).verdict = "UNKNOWN"
               /\ ~Val(ret).accepted
               /\ ~Val(ret).limit_reached

\* a studio run with cap 1 whose text says VERDICT: APPROVED
C4_Witness ==
    /\ pc = "returned" /\ phase = "studio" /\ iteration_cap = 1
    /\ history[1].result = TApproved

\* C5: the inputs of round k carry iteration = k and max_iterations = cap;
\* previous_feedback is non-empty iff k > 1 and round k-1 was REJECTED, and then
\* it embeds round k-1's whole result text and its iteration index; in round 1
\* and after an UNKNOWN round it is empty; for k > 1 previous_result and
\* previous_verdict are those of round k-1.
C5_IterationInputs ==
    pc \in {"factory", "kickoff"} =>
        LET inp == Val(iteration_inputs)
            k == Len(history) + 1
        IN  /\ inp.iteration = k
            /\ iteration = k
            /\ inp.max_iterations = iteration_cap
            /\ inp.previous_feedback # <<>> <=>
                   (k > 1 /\ history[k - 1].verdict = "REJECTED")
            /\ inp.previous_feedback # <<>> =>
                   /\ Embeds(inp.previous_feedback, history[k - 1].result)
                   /\ Embeds(inp.previous_feedback,
                             <<"PREVIOUS REJECTION (Iteration ", Str(k - 1), "):\n">>)
            /\ k = 1 => inp.previous_feedback = <<>>
            /\ (k > 1 /\ history[k - 1].verdict = "UNKNOWN") =>
                   inp.previous_feedback = <<>>
            /\ k > 1 =>
                   /\ inp.previous_result = Some(history[k - 1].result)
                   /\ inp.previous_verdict = Some(history[k - 1].verdict)

\* round 3 is in flight after an UNKNOWN round 1 and a REJECTED round 2
C5_Witness ==
    /\ pc = "kickoff" /\ iteration = 3
    /\ history[1].verdict = "UNKNOWN" /\ history[2].verdict = "REJECTED"
    /\ Val(iteration_inputs).previous_feedback # <<>>

\* C6: an iteration makes at most max(1, candidate_count) agent-turn attempts,
\* candidate_count being the number of candidates when the run started. A
\* handled (RETRY) failure with attempts remaining leads to crew_factory() for
\* the same iteration with history, iteration index and inputs unchanged, and
\* only such a failure does; every crew is a fresh instance called with those
\* inputs; a successful attempt appends one record and ends the iteration.
C6_RetryAttempts ==
    /\ [](pc # "idle" => iter_turns <= Max(1, start_candidates))
    /\ [][ /\ (pc = "kickoff" /\ failure' # None) =>
                  /\ pc' = "factory" <=>
                         /\ Val(failure').handled
                         /\ model_attempt' < Max(1, start_candidates)
                  /\ model_attempt' = model_attempt + 1
                  /\ history' = history
                  /\ iteration' = iteration
                  /\ iteration_inputs' = iteration_inputs
           /\ (pc = "factory" /\ pc' = "kickoff") =>
                  /\ crew'.id > crew.id
                  /\ crews_made' = crews_made + 1
                  /\ history' = history
                  /\ iteration' = iteration
                  /\ iteration_inputs' = iteration_inputs
           /\ (pc = "kickoff" /\ history' # history) =>
                  /\ Len(history') = Len(history) + 1
                  /\ pc' = "factory" => (iteration' = iteration + 1 /\ iter_turns' = 0)
         ]_vars

\* a second attempt of iteration 1 is in flight after a handled failure
C6_Witness ==
    /\ pc = "kickoff" /\ iteration = 1 /\ model_attempt = 1 /\ iter_turns = 2
    /\ crew.retry_of # None /\ crew.id = 2

\* the exception is rate limited / overloaded in the claim's words
C7_RateLimit(e) ==
    \/ StatusInt(e) = Some(429)
    \/ HasKeyword(e.message, RATE_LIMIT_KEYWORDS)

C7_Overload(e) ==
    \/ (StatusInt(e) # None /\ Val(StatusInt(e)) >= 500)
    \/ HasKeyword(e.message, OVERLOAD_KEYWORDS)

\* the outcome C7 describes for the failure f, the manager being mm at time t
C7_Outcome(f, mm, t) ==
    IF C7_RateLimit(f.exc)
    THEN /\ f.handled
         /\ f.model # None =>
                /\ mm.cooldowns[Val(f.model)] >= t + COOLDOWN_MIN_SECONDS
                /\ mm.overheated = f.before.overheated
    ELSE IF C7_Overload(f.exc)
    THEN /\ f.handled
         /\ f.model # None =>
                /\ mm.overheated[Val(f.model)] >= t + COOLDOWN_MIN_SECONDS
                /\ mm.cooldowns = f.before.cooldowns
    ELSE /\ ~f.handled
         /\ mm = f.before

\* C7 as stated: every exception of an agent turn is classified by its status
\* and message alone (rate limit: RETRY and cooldown; else overload: RETRY and
\* overheated; else FATAL).
C7_Original ==
    failure # None => C7_Outcome(Val(failure), model_manager, now)

\* C7 amended: the classification holds when the model manager has a current
\* (last selected) candidate, which is the one marked; with no current
\* candidate every failure is FATAL and nothing is marked.
C7_ClassifiesFailure ==
    failure # None =>
        IF Val(failure).model = None
        THEN ~Val(failure).handled /\ model_manager = Val(failure).before
        ELSE C7_Outcome(Val(failure), model_manager, now)

\* an overloaded exception that also matches the rate-limit test was handled
\* on a selected candidate
C7_Witness ==
    /\ failure # None
    /\ Val(failure).exc = EBoth
    /\ Val(failure).model = Some(Gemini)
    /\ model_manager.cooldowns[Gemini] > now

\* every attempt of the iteration failed with a handled (retryable) failure
C8_Exhausted ==
    /\ pc = "raised"
    /\ failure # None
    /\ Val(failure).handled
    /\ model_attempt >= Max(1, start_candidates)

\* C8 as stated: when every attempt of an iteration fails with a retryable
\* failure, the run raises the RuntimeError saying that all models failed.
C8_Original == C8_Exhausted => exc = Some(RuntimeError)

\* C8 amended: when every attempt of an iteration fails with a retryable
\* failure, the run raises the last attempt's own exception, unchanged; the
\* RuntimeError "All configured models failed" is raised only when no attempt
\* raised and crew.kickoff returned None.
C8_ExhaustionPropagates ==
    /\ C8_Exhausted => exc = Some(Val(failure).exc)
    /\ (pc = "raised" /\ exc = Some(RuntimeError)) => failure = None

\* both attempts of an iteration failed, the second of them rate limited
C8_Witness ==
    /\ C8_Exhausted
    /\ model_attempt = 2 /\ iter_turns = 2
    /\ exc = Some(E429)

\* C9: a failure the handler classifies FATAL leaves the run at once as the
\* same exception: nothing is returned, the model manager (cooldown and
\* overheat timestamps included) is as before the failure, and no step follows
\* the raise (no further attempt, no later iteration).
C9_FatalPropagates ==
    /\ []((failure # None /\ ~Val(failure).handled) =>
              /\ pc = "raised"
              /\ exc = Some(Val(failure).exc)
              /\ ret = None
              /\ model_manager = Val(failure).before)
    /\ [][pc # "raised"]_vars

\* a fatal failure on a selected candidate in iteration 1 of 3, first attempt
C9_Witness ==
    /\ pc = "raised" /\ failure # None
    /\ ~Val(failure).handled
    /\ Val(failure).model # None
    /\ iteration = 1 /\ iteration_cap = 3
    /\ model_attempt = 1 /\ max_model_attempts = 2

\* the provider check of _select_llm_configuration passes for the candidate
C10_PassesCheck(candidate) ==
    IF Provider(candidate) = "ollama" THEN env.healthy
    ELSE Provider(candidate) \in KeyedProviders => Provider(candidate) \in env.keys

\* an attempt built by StudioCrew retries a failure on candidate crew.retry_of,
\* at least two candidates being configured
C10_Retrying ==
    /\ pc = "kickoff" /\ factory = "studio"
    /\ crew.retry_of # None
    /\ Len(model_manager.candidates) >= 2

\* C10 as stated: after a retryable failure on c the next attempt runs on a
\* candidate other than c, whatever the state of the other candidates.
C10_Original == C10_Retrying => crew.model # crew.retry_of

\* C10 amended: after a retryable failure on c the next attempt runs on a
\* candidate other than c provided that, when its crew is built, some other
\* candidate is neither in cooldown nor overheated and passes its provider
\* check; otherwise selection falls back to the full list and may return c.
C10_RetryOnOtherCandidate ==
    ( /\ C10_Retrying
      /\ \E i \in 1..Len(model_manager.candidates) :
             LET d == model_manager.candidates[i]
             IN  /\ Some(d) # crew.retry_of
                 /\ crew.before.cooldowns[d] <= crew.at
                 /\ crew.before.overheated[d] <= crew.at
                 /\ C10_PassesCheck(d) )
    => crew.model # crew.retry_of

\* a failure on Gemini is retried on Ollama
C10_Witness ==
    /\ C10_Retrying
    /\ crew.retry_of = Some(Gemini)
    /\ crew.model = Some(Ollama)

\* both timestamps of candidate m have passed
Available(m) ==
    model_manager.cooldowns[m] <= now /\ model_manager.overheated[m] <= now

\* the monitor flags candidate m low on headroom
LowHeadroom(m) == snapshots[m] # None /\ Val(snapshots[m]).low_headroom

SomeAvailable ==
    \E i \in 1..Len(model_manager.candidates) : Available(model_manager.candidates[i])

\* c is the first candidate in priority order that satisfies P
FirstWith(c, P(_)) ==
    \E i \in 1..Len(model_manager.candidates) :
        /\ model_manager.candidates[i] = c
        /\ P(c)
        /\ \A j \in 1..(i - 1) : ~P(model_manager.candidates[j])

AvailableWithHeadroom(m) == Available(m) /\ ~LowHeadroom(m)
WithHeadroom(m) == ~LowHeadroom(m)
Configured(m) == TRUE

\* C11: when some configured candidate is neither in cooldown nor overheated,
\* select_model returns the first candidate in priority order that is
\* available and not low on headroom, or the first available one when every
\* available candidate is low on headroom; the candidate returned is never
\* cooling or overheated and is recorded as the current model.
C11_SelectsAvailable ==
    (call.op = "select_model" /\ SomeAvailable) =>
        /\ call.result # None
        /\ Available(Val(call.result))
        /\ IF \E i \in 1..Len(model_manager.candidates) :
                  AvailableWithHeadroom(model_manager.candidates[i])
           THEN FirstWith(Val(call.result), AvailableWithHeadroom)
           ELSE FirstWith(Val(call.result), Available)
        /\ current_model(model_manager) = call.result

\* select_model passed over a first candidate that is available but low on
\* headroom and returned the second
C11_Witness ==
    /\ call.op = "select_model"
    /\ Len(model_manager.candidates) = 2
    /\ Available(model_manager.candidates[1])
    /\ LowHeadroom(model_manager.candidates[1])
    /\ call.result = Some(model_manager.candidates[2])

\* select_model was called with candidates configured, all of them in
\* cooldown or overheated
C12_NoneAvailable ==
    /\ call.op = "select_model"
    /\ model_manager.candidates # <<>>
    /\ ~SomeAvailable

\* C12 as stated: when every configured candidate is in cooldown or
\* overheated, select_model returns the first candidate of the full list
\* whatever the cooldown, overheat and headroom state.
C12_Original ==
    C12_NoneAvailable => call.result = Some(model_manager.candidates[1])

\* C12 amended: when every configured candidate is in cooldown or overheated,
\* select_model returns the first candidate of the full list that is not low
\* on headroom, whatever the cooldown and overheat state, and the first
\* candidate of the full list when all of them are low on headroom.
C12_FailsOpen ==
    C12_NoneAvailable =>
        /\ call.result # None
        /\ IF \E i \in 1..Len(model_manager.candidates) :
                  WithHeadroom(model_manager.candidates[i])
           THEN FirstWith(Val(call.result), WithHeadroom)
           ELSE FirstWith(Val(call.result), Configured)

\* both candidates are cooling or overheated, the first is low on headroom
\* and select_model returned the second
C12_Witness ==
    /\ C12_NoneAvailable
    /\ Len(model_manager.candidates) = 2
    /\ LowHeadroom(model_manager.candidates[1])
    /\ call.result = Some(model_manager.candidates[2])

\* the duration C13 gives: r if non-zero, else the monitor's last retry-after
\* if non-zero, else the default; never less than 5 seconds
C13_Duration(r, last, default) ==
    LET d == IF r # None /\ Val(r) # 0 THEN Val(r)
             ELSE IF last # None /\ Val(last) # 0 THEN Val(last)
             ELSE default
    IN  IF d > 5 THEN d ELSE 5

\* the monitor's last known retry-after for candidate m
C13_LastKnown(m) == IF snapshots[m] = None THEN None ELSE Val(snapshots[m]).retry_after

\* C13: mark_cooldown(c, r) at time t sets c's cooldown-until to t + max(5, d)
\* (d: r if non-zero, else the monitor's last retry-after if non-zero, else
\* 30) and mark_overheated sets the overheat-until likewise with default 45,
\* each leaving every other timestamp alone; while one of c's deadlines lies
\* ahead select_model returns c only if no candidate is available, and a
\* candidate that is the only one with both deadlines behind it is returned.
C13_CooldownDeadline ==
    /\ [][ /\ (call'.op = "mark_cooldown" /\ ops' = ops + 1) =>
                 LET c == Val(call'.model)
                 IN  /\ model_manager'.cooldowns[c] =
                            now + C13_Duration(call'.retry_after, C13_LastKnown(c), 30)
                     /\ \A m \in AllModels \ {c} :
                            model_manager'.cooldowns[m] = model_manager.cooldowns[m]
                     /\ model_manager'.overheated = model_manager.overheated
           /\ (call'.op = "mark_overheated" /\ ops' = ops + 1) =>
                 LET c == Val(call'.model)
                 IN  /\ model_manager'.overheated[c] =
                            now + C13_Duration(call'.cooldown_seconds, None, 45)
                     /\ \A m \in AllModels \ {c} :
                            model_manager'.overheated[m] = model_manager.overheated[m]
                     /\ model_manager'.cooldowns = model_manager.cooldowns
         ]_vars
    /\ [](call.op = "select_model" =>
            \A i \in 1..Len(model_manager.candidates) :
                LET c == model_manager.candidates[i]
                IN  /\ (call.result = Some(c) /\ ~Available(c)) => ~SomeAvailable
                    /\ ( /\ Available(c)
                         /\ \A j \in 1..Len(model_manager.candidates) :
                                model_manager.candidates[j] # c =>
                                    ~Available(model_manager.candidates[j]) )
                       => call.result = Some(c))

\* a candidate cooled with retry_after 2 at time 0 is returned again once its
\* deadline of 5 has come, the other candidate being unavailable
C13_Witness ==
    /\ call.op = "select_model"
    /\ now = 5
    /\ model_manager.candidates = <<Gemini, Ollama>>
    /\ model_manager.cooldowns[Gemini] = 5
    /\ ~Available(Ollama)
    /\ call.result = Some(Gemini)

\* C14 as stated: in every state reachable through configure_candidates,
\* mark_cooldown, mark_overheated, select_model and reset the candidate list
\* is non-empty, and select_model returns a member of it without raising.
C14_Original ==
    /\ model_manager.candidates # <<>>
    /\ call.op = "select_model" =>
           /\ call.result # None
           /\ \E i \in 1..Len(model_manager.candidates) :
                  model_manager.candidates[i] = Val(call.result)

\* C15: _safe_max_iterations returns a positive integer for every input: the
\* integer itself when the value parses to an integer greater than 0, and 3
\* when the value is absent, does not parse, or parses to zero or less;
\* run_iterative_kickoff uses the value as its cap for the whole run, passes
\* it to every round as max_iterations and reports it as max_iterations.
C15_SafeCap ==
    /\ [](call.op = "_safe_max_iterations" =>
            LET parsed == IF call.raw_value = None THEN None
                          ELSE ToInt(call.raw_value)
            IN  /\ call.result > 0
                /\ (parsed # None /\ Val(parsed) > 0) => call.result = Val(parsed)
                /\ (parsed = None \/ Val(parsed) <= 0) => call.result = 3
                /\ iteration_cap = call.result)
    /\ [](pc # "idle" =>
            /\ iteration_cap > 0
            /\ iteration_inputs # None =>
                   Val(iteration_inputs).max_iterations = iteration_cap)
    /\ [](ret # None => Val(ret).max_iterations = iteration_cap)
    /\ [][pc # "idle" => iteration_cap' = iteration_cap]_vars

\* a run was started with max_iterations "-1" and got the cap 3
C15_Witness ==
    /\ pc = "factory"
    /\ call.op = "_safe_max_iterations"
    /\ call.raw_value = PyStr(<<"-", "1">>)
    /\ iteration_cap = 3

\* allocate_iterations was called
Allocating == call.op = "allocate_iterations"

\* the call scales: a budget is given and differs from the config's total
Scaling ==
    /\ Allocating
    /\ call.total_budget # None
    /\ Val(call.total_budget) # total_iterations(call.scopes)

\* the declared max_iterations of the scopes, in order
Shares(scopes) == [i \in 1..Len(scopes) |-> scopes[i].max_iterations]

\* the allocations of the first n scopes, added up
RECURSIVE AllocatedTo(_, _, _)
AllocatedTo(result, scopes, n) ==
    IF n = 0 THEN 0 ELSE AllocatedTo(result, scopes, n - 1) + result[scopes[n].name]

\* C16: for a non-empty config and a total_budget that differs from the
\* config's own total, the allocations (one per scope) add up to total_budget.
C16_SumsToBudget ==
    Scaling =>
        /\ DOMAIN call.result = {call.scopes[i].name : i \in 1..Len(call.scopes)}
        /\ AllocatedTo(call.result, call.scopes, Len(call.scopes)) =
               Val(call.total_budget)

\* shares 4/3/1 scaled to 10: the last scope takes what the rounding left
C16_Witness ==
    /\ Scaling
    /\ Shares(call.scopes) = <<4, 3, 1>>
    /\ call.total_budget = Some(10)
    /\ call.result["implementation"] = 3
    /\ call.result["polish"] = 2

\* C17 as stated: for every config and every total_budget of at least 1,
\* every scope, the last one included, is allocated at least 1 iteration.
C17_Original ==
    (Allocating /\ call.total_budget # None /\ Val(call.total_budget) >= 1) =>
        \A i \in 1..Len(call.scopes) : call.result[call.scopes[i].name] >= 1

\* C18: with total_budget absent or equal to the sum of the declared
\* max_iterations, every scope is allocated exactly its declared
\* max_iterations.
C18_Passthrough ==
    ( /\ Allocating
      /\ \/ call.total_budget = None
         \/ Val(call.total_budget) = total_iterations(call.scopes) )
    => /\ DOMAIN call.result = {call.scopes[i].name : i \in 1..Len(call.scopes)}
       /\ \A i \in 1..Len(call.scopes) :
              call.result[call.scopes[i].name] = call.scopes[i].max_iterations

\* shares 15/7 with a budget of 22, their sum, come back as declared
C18_Witness ==
    /\ Allocating
    /\ Shares(call.scopes) = <<15, 7>>
    /\ call.total_budget = Some(22)
    /\ call.result["high_level"] = 15
    /\ call.result["implementation"] = 7

\* C19 as stated: when allocate_iterations scales, every scope but the last
\* gets max(1, floor(total_budget * max_iterations / config_total)) and the
\* last gets total_budget minus the other allocations; shares 4/3/1 with
\* budget 10 give 5/3/2 and shares 3/2 with budget 10 give 6/4.
C19_Original ==
    Scaling =>
        LET n == Len(call.scopes)
            budget == Val(call.total_budget)
            config_total == total_iterations(call.scopes)
        IN  /\ \A i \in 1..(n - 1) :
                   call.result[call.scopes[i].name] =
                       Max(1, (budget * call.scopes[i].max_iterations) \div config_total)
            /\ call.result[call.scopes[n].name] =
                   budget - AllocatedTo(call.result, call.scopes, n - 1)
            /\ (Shares(call.scopes) = <<4, 3, 1>> /\ budget = 10) =>
                   [i \in 1..n |-> call.result[call.scopes[i].name]] = <<5, 3, 2>>
            /\ (Shares(call.scopes) = <<3, 2>> /\ budget = 10) =>
                   [i \in 1..n |-> call.result[call.scopes[i].name]] = <<6, 4>>

\* C20: inject_context_into_prompt returns base_prompt unchanged, for every
\* base_prompt, when the context is absent or its list of reasons is empty.
C20_Unchanged ==
    (/\ call.op = "inject_context_into_prompt"
     /\ \/ IsNone(call.context)
        \/ Val(call.context).reasons = <<>>)
        => call.result = call.base_prompt

\* a context with no reasons was injected into a prompt holding a marker
C20_Witness ==
    /\ call.op = "inject_context_into_prompt"
    /\ ~IsNone(call.context)
    /\ Val(call.context).reasons = <<>>
    /\ Find(call.base_prompt, "---") = 1
    /\ call.result = call.base_prompt

Injecting ==
    /\ call.op = "inject_context_into_prompt"
    /\ ~IsNone(call.context)
    /\ Val(call.context).reasons # <<>>

IsMarker(tok) == \E k \in 1..Len(INJECTION_MARKERS) : INJECTION_MARKERS[k] = tok

\* the number of tokens of text before the first marker (all of them if none)
BeforeFirstMarker(text) ==
    IF \E i \in 1..Len(text) : IsMarker(text[i])
    THEN (CHOOSE i \in 1..Len(text) :
              /\ IsMarker(text[i])
              /\ \A j \in 1..(i - 1) : ~IsMarker(text[j])) - 1
    ELSE Len(text)

Banner == "**Previous iteration was REJECTED for the following reasons:**"

\* C21: with at least one reason the context block is inserted where the
\* earliest of the four markers first occurs in base_prompt (at the end when
\* none occurs); the text before and after that position is kept verbatim, the
\* block holds the banner and every reason, and the banner comes strictly
\* before the first "## Deliverables" of the output when base_prompt has one.
C21_InjectsBeforeMarker ==
    Injecting =>
        LET p == call.base_prompt
            out == call.result
            at == BeforeFirstMarker(p)
            added == Len(out) - Len(p)
            block == SubSeq(out, at + 1, at + added)
        IN  /\ added > 0
            /\ SubSeq(out, 1, at) = SubSeq(p, 1, at)
            /\ SubSeq(out, at + added + 1, Len(out)) = SubSeq(p, at + 1, Len(p))
            /\ Find(block, Banner) # 0 - 1
            /\ \A i \in 1..Len(Val(call.context).reasons) :
                   Find(block, Val(call.context).reasons[i]) # 0 - 1
            /\ Find(p, "## Deliverables") # 0 - 1
                   => Find(out, Banner) < Find(out, "## Deliverables")

\* a block was injected before "## Deliverables" although "---" comes later
C21_Witness ==
    /\ Injecting
    /\ call.base_prompt = <<"# Advocate Prompt", "## Deliverables", "---">>
    /\ Find(call.result, Banner) < Find(call.result, "## Deliverables")
    /\ Len(call.result) > 3

Extracting == call.op = "extract_rejection_reasons"

\* the reasons that survive the clean-up, in discovery order
Surviving(reasons) ==
    SelectSeq([k \in 1..Len(reasons) |-> CleanReason(reasons[k])],
              LAMBDA reason : Len(reason) > 15)

\* C22: extract_rejection_reasons never returns more than 5 reasons; its
\* result is the first 5 of the reasons whose cleaned text is longer than 15
\* characters, in the order in which they were discovered.
C22_AtMostFive ==
    Extracting =>
        /\ Len(call.result) <= 5
        /\ \A k \in 1..Len(call.result) : call.result[k] = Surviving(call.reasons)[k]
        /\ Len(call.result) = Min(5, Len(Surviving(call.reasons)))

\* seven reasons were discovered, all of them survived, five were returned
C22_Witness ==
    /\ Extracting
    /\ Len(call.reasons) = 7
    /\ Len(Surviving(call.reasons)) = 7
    /\ Len(call.result) = 5

\* "A - b" of the call's first list item
TitleDashDescription == Val(call.title) \o <<" ", "-", " ">> \o Val(call.description)

HasMarkdown(s) == \E k \in 1..Len(s) : s[k] \in {"*", Backquote}

NamedEntries(environ) ==
    LET priority == _parse_model_list(environ.STUDIO_MODEL_PRIORITY)
        primary == IF environ.STUDIO_MODEL = None THEN <<>> ELSE Val(environ.STUDIO_MODEL)
        local == IF environ.STUDIO_OLLAMA_MODEL = None THEN <<Ollama>>
                 ELSE Val(environ.STUDIO_OLLAMA_MODEL)
    IN  SelectSeq((IF priority # <<>> THEN priority
                   ELSE _parse_model_list(environ.STUDIO_MODEL_CANDIDATES))
                      \o <<primary>>
                      \o _parse_model_list(environ.STUDIO_MODEL_FALLBACK)
                      \o <<local>>,
                  LAMBDA entry : entry # <<>>)

FirstIndex(entries, entry) ==
    CHOOSE k \in 1..Len(entries) :
        entries[k] = entry /\ \A j \in 1..(k - 1) : entries[j] # entry

\* C24: configured_model_candidates returns a non-empty list without
\* duplicates that holds exactly the named entries, in the order of their
\* first occurrence: priority (or else candidates) list, primary model,
\* fallback list, and the local model last when it was not already there.
C24_OrderedCandidates ==
    call.op = "configured_model_candidates" =>
        LET named == NamedEntries(call.environ)
            out == call.result
        IN  /\ out # <<>>
            /\ \A i, j \in 1..Len(out) : out[i] = out[j] => i = j
            /\ named # <<>> =>
                   /\ \A k \in 1..Len(named) : InList(named[k], out)
                   /\ \A i \in 1..Len(out) : InList(out[i], named)
                   /\ \A i, j \in 1..Len(out) :
                          i < j => FirstIndex(named, out[i]) < FirstIndex(named, out[j])

\* the test's case: a duplicate primary model is dropped, the local model is last
C24_Witness ==
    /\ call.op = "configured_model_candidates"
    /\ call.environ.STUDIO_MODEL_PRIORITY = None
    /\ call.environ.STUDIO_MODEL = Some(<<GeminiPro>>)
    /\ call.result = << <<Mixtral>>, <<GeminiPro>>, <<Llama70>>, <<Ollama>> >>

\* the files of the run directory that the call is about: contrarian files of
\* the given role (of no role when none is given) holding a REJECTED verdict
RejectedFiles ==
    { f \in Val(call.run_dir) :
          /\ f.role = call.role
          /\ Contains(f.content, <<"R", "E", "J", "E", "C", "T", "E", "D">>) }

\* C25 as stated: find_latest_rejection returns the rejected contrarian file
\* with the highest iteration number, None when there is none, for any
\* number of iterations, 10 or more included.
C25_Original ==
    (call.op = "find_latest_rejection" /\ call.run_dir # None) =>
        IF RejectedFiles = {} THEN call.result = None
        ELSE /\ call.result # None
             /\ Val(call.result) \in RejectedFiles
             /\ \A f \in RejectedFiles : f.iteration <= Val(call.result).iteration

\* what run.json records about the outcome of the run, None without run.json
Recorded(root) ==
    IF root.run_json = None THEN None
    ELSE Some(<< Val(root.run_json).status, Val(root.run_json).verdict,
                 Val(root.run_json).iterations_run >>)

\* the summary file finalize_run(args) looks for: the one given, else the one
\* recorded, else summary.md of the run directory
SummaryOf(root, args) ==
    IF args.summary # None THEN Val(args.summary)
    ELSE IF Val(root.run_json).summary_path # <<>> THEN Val(root.run_json).summary_path
    ELSE SummaryMd

\* a required artifact of the run args names is missing: run.json, the summary
\* file, advocate_*.md or contrarian_*.md of a market, design or tech run, for
\* a studio run integrator.md or the advocate and contrarian file of every
\* invited role
MissingRequired(root, args) ==
    \/ root.run_json = None
    \/ root.run_phase # Some(args.phase)
    \/ ~\E f \in root.files : f.name = SummaryOf(root, args)
    \/ /\ args.phase # "studio"
       /\ \/ Glob(root.files, Advocate \o <<"_">>) = {}
          \/ Glob(root.files, Contrarian \o <<"_">>) = {}
    \/ /\ args.phase = "studio"
       /\ \/ ~\E f \in root.files : f.name = IntegratorMd
          \/ \A k \in DOMAIN Val(root.run_json).invited :
                 \/ collect_role_artifacts(root.files, Val(root.run_json).invited[k], Advocate) = {}
                 \/ collect_role_artifacts(root.files, Val(root.run_json).invited[k], Contrarian) = {}

\* C26: finalize_run on a run with a required artifact missing raises
\* FileNotFoundError and leaves run.json, output/index.md and the run log as
\* they were; a finalize_run that raises changes no file; and the status,
\* verdict and iterations_run recorded for a prepared run change only in a
\* finalize_run that found every required artifact and did not raise
C26_FinalizeValidates ==
    [][ /\ call'.op = "finalize_run" =>
              /\ MissingRequired(studio_root, call'.args) =>
                     call'.raised = Some("FileNotFoundError")
              /\ call'.raised # None => studio_root' = studio_root
        /\ (studio_root.run_json # None /\ Recorded(studio_root') # Recorded(studio_root)) =>
              /\ call'.op = "finalize_run"
              /\ call'.raised = None
              /\ ~MissingRequired(studio_root, call'.args)
      ]_vars

\* a prepared run with some artifacts written but not all: finalize_run raised
\* and the status is still PENDING
C26_Witness ==
    /\ call.op = "finalize_run"
    /\ call.raised = Some("FileNotFoundError")
    /\ studio_root.run_phase = Some(call.args.phase)
    /\ studio_root.run_json # None
    /\ Val(studio_root.run_json).status = <<"P", "E", "N", "D", "I", "N", "G">>
    /\ studio_root.files # {}
    /\ studio_root.run_log = <<>>

\* the history reads as one run of the loop: indices 1..n in order, no debate
\* record after an APPROVED one, and an IMPLEMENTATION record only as the
\* final record, directly after an APPROVED record
WellFormedHistory(hist) ==
    /\ \A i \in 1..Len(hist) : hist[i].iteration = i
    /\ phase # "studio" =>
           \A i \in 1..Len(DebateRounds(hist)) :
               /\ i < Len(DebateRounds(hist)) =>
                      DebateRounds(hist)[i].verdict \in {"REJECTED", "UNKNOWN"}
               /\ DebateRounds(hist)[i].verdict \in {"APPROVED", "REJECTED", "UNKNOWN"}
    /\ \A i \in 1..Len(hist) :
           hist[i].verdict = "IMPLEMENTATION" =>
               /\ i = Len(hist)
               /\ i > 1
               /\ hist[i - 1].verdict = "APPROVED"
    /\ Cardinality({i \in 1..Len(hist) : hist[i].verdict = "IMPLEMENTATION"}) <= 1

\* C27: the history of a run, and the history run_iterative_kickoff returns,
\* carries the indices 1..n in order; for a phase other than studio every
\* debate record but the last is REJECTED or UNKNOWN, so an APPROVED record is
\* the last debate record; an IMPLEMENTATION record occurs at most once, as
\* the final record and directly after an APPROVED record; and every step of
\* the run leaves the records appended so far as they are
C27_HistoryShape ==
    /\ [](/\ WellFormedHistory(history)
          /\ ret # None => Val(ret).history = history)
    /\ [][ /\ Len(history') >= Len(history)
           /\ SubSeq(history', 1, Len(history)) = history ]_vars

\* a returned history with a rejected round, an approved round and the
\* implementation record
C27_Witness ==
    /\ pc = "returned"
    /\ Len(Val(ret).history) = 3
    /\ Val(ret).history[1].verdict = "REJECTED"
    /\ Val(ret).history[2].verdict = "APPROVED"
    /\ Val(ret).history[3].verdict = "IMPLEMENTATION"

\* the deadlines the manager keeps for model m
Marks(mm, m) == << mm.cooldowns[m], mm.overheated[m] >>

\* C28: when two invocations share the model manager, a failure the handler
\* handled has marked the candidate the failing attempt ran on, and no other
C28_Original ==
    \A i \in Threads :
        LET f == invocations[i].failure
        IN  (f # None /\ Val(f).handled) =>
                /\ Val(f).marked = Val(f).selected
                /\ \A m \in AllModels :
                       m # Val(Val(f).selected) =>
                           Marks(Val(f).after, m) = Marks(Val(f).before, m)

\* the check _select_llm_configuration makes of a candidate passes: the
\* Ollama health check, or the API key of the provider is set
PassesCheck(e, candidate) ==
    IF Provider(candidate) = "ollama" THEN e.healthy
    ELSE Provider(candidate) \in e.keys

\* the mark a rejected candidate gets: overheated for Ollama, cooldown for a
\* missing key
MarkedRejected(mm, t, candidate) ==
    IF Provider(candidate) = "ollama"
    THEN mm.overheated[candidate] = t + OLLAMA_FAIL_COOLDOWN
    ELSE mm.cooldowns[candidate] = t + MISSING_KEY_COOLDOWN

\* C29: _select_llm_configuration returns only a candidate that passed its
\* check, marks every candidate it rejected, and raises the EnvironmentError
\* only when it has tested and rejected every configured candidate, whatever
\* cooldowns and overheat marks the manager held on entry
C29_Original ==
    call.op = "_select_llm_configuration" =>
        /\ call.result # None => PassesCheck(env, Val(call.result))
        /\ \A c \in call.tested :
               Some(c) # call.result =>
                   ~PassesCheck(env, c) /\ MarkedRejected(model_manager, now, c)
        /\ call.result = None =>
               call.tested = {env.candidates[k] : k \in DOMAIN env.candidates}

\* C30: a run makes at most cap * max(1, candidate_count) agent-turn calls and
\* at most one implementation turn; an agent turn begins only from the crew
\* factory, after the turn before it has come back, one turn per step; and,
\* every call returning or raising, a run that was called returns or raises
C30_Terminates ==
    /\ [](/\ turns <= iteration_cap * Max(1, start_candidates)
          /\ impl_calls <= 1)
    /\ [][ /\ turns' \in {turns, turns + 1}
           /\ turns' = turns + 1 => (pc = "factory" /\ pc' = "kickoff")
           /\ impl_calls' # impl_calls => (pc = "kickoff" /\ pc' = "implementation")
         ]_vars
    /\ (pc # "idle") ~> (pc \in {"returned", "raised"})

\* a run of cap 1 on two candidates that used both attempts of its iteration
\* and its implementation turn, and returned
C30_Witness ==
    /\ pc = "returned"
    /\ start_candidates = 2
    /\ turns = iteration_cap * start_candidates
    /\ impl_calls = 1

=============================================================================
